---- MODULE Spec2Model ----
(***************************************************************************)
(* A model of giantswarm/oka: the MCP client registry (package client),    *)
(* the per-alert session loop (package session, Session.Run) and the       *)
(* supervisor that starts one session per alert (session.Listen,           *)
(* session.ProcessSingleAlert, cmd runContinuousMode/processSingleAlert).  *)
(*                                                                         *)
(* Go strings are sequences of one-character strings, so that ToLower,     *)
(* Contains, TrimSpace and Sprintf are computed and not assumed.  Go       *)
(* slices are (array, len, cap) headers into a heap of backing arrays and  *)
(* Go maps are references into the same heap, so that sharing between a    *)
(* registry and its clone is something the model can exhibit.              *)
(***************************************************************************)
EXTENDS Integers, Sequences, FiniteSets, TLC

(***************************************************************************)
(* Bounds of the model.                                                    *)
(***************************************************************************)
\* Alerts the producer may put on the queue in continuous mode.
MaxAlerts == 2
\* conf.MaxCalls: 0..MaxCallsBound where one session runs alone,
\* MaxCallsBound in continuous mode.
MaxCallsBound == 2

(***************************************************************************)
(* Strings.                                                                *)
(***************************************************************************)
Nil == "nil"

UpperToLower ==
  [c \in {"A","B","C","D","E","F","G","H","I","J","K","L","M","N","O","P",
          "Q","R","S","T","U","V","W","X","Y","Z"} |->
     CASE c = "A" -> "a" [] c = "B" -> "b" [] c = "C" -> "c" [] c = "D" -> "d"
       [] c = "E" -> "e" [] c = "F" -> "f" [] c = "G" -> "g" [] c = "H" -> "h"
       [] c = "I" -> "i" [] c = "J" -> "j" [] c = "K" -> "k" [] c = "L" -> "l"
       [] c = "M" -> "m" [] c = "N" -> "n" [] c = "O" -> "o" [] c = "P" -> "p"
       [] c = "Q" -> "q" [] c = "R" -> "r" [] c = "S" -> "s" [] c = "T" -> "t"
       [] c = "U" -> "u" [] c = "V" -> "v" [] c = "W" -> "w" [] c = "X" -> "x"
       [] c = "Y" -> "y" [] c = "Z" -> "z"]

\* Mutation of ToLower: letters keep their case.
ToLowerIdentity(s) == s

\* strings.ToLower
ToLower(s) ==
  [k \in 1..Len(s) |-> IF s[k] \in DOMAIN UpperToLower THEN UpperToLower[s[k]] ELSE s[k]]

\* strings.Contains
Contains(s, substr) ==
  \E k \in 0..(Len(s) - Len(substr)) : SubSeq(s, k + 1, k + Len(substr)) = substr

WhiteSpace == {" ", "\n", "\t"}

\* strings.TrimSpace
TrimSpace(s) ==
  LET keep == {k \in 1..Len(s) : s[k] \notin WhiteSpace}
  IN  IF keep = {} THEN <<>>
      ELSE LET lo == CHOOSE k \in keep : \A j \in keep : k <= j
               hi == CHOOSE k \in keep : \A j \in keep : k >= j
           IN  SubSeq(s, lo, hi)

\* fmt.Sprintf("%s_%s", clientName, toolName)
SprintfName(clientName, toolName) == clientName \o <<"_">> \o toolName

(***************************************************************************)
(* The Go heap: backing arrays of slices and maps, addressed by            *)
(* references <<owner, k>> (the k-th allocation made on behalf of owner).  *)
(***************************************************************************)
\* The nil reference.
NilRef == <<>>

Fresh(heap, o) == <<o, Cardinality({r \in DOMAIN heap : r[1] = o}) + 1>>

\* A nil or zero-capacity slice: no backing array to share.
NilSlice == [arr |-> NilRef, len |-> 0, cap |-> 0]

\* The elements of slice s.
Elems(heap, s) == IF s.len = 0 THEN <<>> ELSE SubSeq(heap[s.arr], 1, s.len)

\* append(s, x): in place while len < cap, else into a new, larger array.
GoAppend(heap, o, s, x) ==
  IF s.len < s.cap
  THEN [heap |-> [heap EXCEPT ![s.arr][s.len + 1] = x],
        s    |-> [s EXCEPT !.len = s.len + 1]]
  ELSE LET newcap == IF s.cap = 0 THEN 1 ELSE 2 * s.cap
           ref    == Fresh(heap, o)
           arr    == [k \in 1..newcap |->
                        IF k <= s.len THEN heap[s.arr][k]
                        ELSE IF k = s.len + 1 THEN x ELSE Nil]
       IN  [heap |-> (ref :> arr) @@ heap,
            s    |-> [arr |-> ref, len |-> s.len + 1, cap |-> newcap]]

\* slices.Clone(s): a new backing array holding s's elements.
SlicesClone(heap, o, s) ==
  IF s.len = 0 THEN [heap |-> heap, s |-> NilSlice]
  ELSE LET ref == Fresh(heap, o)
       IN  [heap |-> (ref :> Elems(heap, s)) @@ heap,
            s    |-> [arr |-> ref, len |-> s.len, cap |-> s.len]]

\* maps.Clone(m): a new map holding m's entries.
MapsClone(heap, o, m) ==
  LET ref == Fresh(heap, o)
  IN  [heap |-> (ref :> heap[m]) @@ heap, m |-> ref]

(***************************************************************************)
(* conf.MCPServers and the MCP servers behind it.                          *)
(***************************************************************************)
\* Server names of the configuration.
SrvA  == <<"a">>
SrvAB == <<"a","_","b">>
SrvZ  == <<"z">>
SrvO  == <<"o">>

\* config.MCPServers: Shared (a *bool) is nil, "true" or "false"; Disabled.
MCPServers ==
  (SrvA  :> [Shared |-> Nil,     Disabled |-> FALSE]) @@
  (SrvAB :> [Shared |-> "false", Disabled |-> FALSE]) @@
  (SrvZ  :> [Shared |-> "false", Disabled |-> FALSE]) @@
  (SrvO  :> [Shared |-> "true",  Disabled |-> TRUE])

\* MCPServer.IsShared
IsShared(s) == s.Shared = Nil \/ s.Shared = "true"

\* Config.GetMCPServers(shared): the names of the servers it returns.
GetMCPServers(shared) == {k \in DOMAIN MCPServers : shared = IsShared(MCPServers[k])}

\* What each server answers to ListTools (its original tool names).
ServerTools ==
  (SrvA  :> << [Name |-> <<"b","_","c">>, Description |-> <<"A">>],
               [Name |-> <<"x">>,         Description |-> <<"A">>] >>) @@
  (SrvAB :> << [Name |-> <<"c">>,         Description |-> <<"B">>],
               [Name |-> <<"y">>,         Description |-> <<"B">>] >>) @@
  (SrvZ  :> << >>) @@
  (SrvO  :> << [Name |-> <<"x">>,         Description |-> <<"O">>] >>)

\* How a registration can go: the environment's answers to Start,
\* Initialize and ListTools.
RegisterOutcomes == {"ok", "startErr", "initErr", "listErr"}

\* The cause an external call reports when it fails.
ErrCause == [isNil |-> FALSE, msg |-> <<"E","O","F">>]

(***************************************************************************)
(* Package client: the registry (type Clients).                            *)
(***************************************************************************)
\* A client.Client is identified by the registry it was created for and
\* the server name; conns maps it to [status, closes].
Client(o, name) == [owner |-> o, name |-> name]

NewConn == [status |-> "new", closes |-> 0]

\* client.Close(): the connection is closed (again).
ConnClose(conn) == [status |-> "closed", closes |-> conn.closes + 1]

\* A registry variable before its registry exists.
NoClients == [tools |-> NilSlice, toolsClients |-> NilRef, uniqueClients |-> NilSlice]

\* client.New()
New(heap, o) ==
  LET ref == Fresh(heap, o)
  IN  [heap |-> (ref :> <<>>) @@ heap,
       c    |-> [tools |-> NilSlice, toolsClients |-> ref, uniqueClients |-> NilSlice]]

\* Clients.GetTools
GetTools(heap, c) == Elems(heap, c.tools)

\* Mutation of Clone: the clone also carries the source's uniqueClients.
CloneKeepsClients(heap, o, c) ==
  LET m == MapsClone(heap, o, c.toolsClients)
      t == SlicesClone(m.heap, o, c.tools)
      u == SlicesClone(t.heap, o, c.uniqueClients)
  IN  [heap |-> u.heap,
       c    |-> [tools |-> t.s, toolsClients |-> m.m, uniqueClients |-> u.s]]

\* Mutation of Clone: the map is assigned, not cloned.
CloneSharesMap(heap, o, c) ==
  LET t == SlicesClone(heap, o, c.tools)
  IN  [heap |-> t.heap,
       c    |-> [tools |-> t.s, toolsClients |-> c.toolsClients,
                 uniqueClients |-> NilSlice]]

\* Mutation of Clone: the map is cloned and the tools list is left empty.
CloneWithoutTools(heap, o, c) ==
  LET m == MapsClone(heap, o, c.toolsClients)
  IN  [heap |-> m.heap,
       c    |-> [tools |-> NilSlice, toolsClients |-> m.m, uniqueClients |-> NilSlice]]

\* Clients.Clone: new map and new tools array; uniqueClients is left nil.
\* (The make() results of lines 59-60 are overwritten before any use.)
Clone(heap, o, c) ==
  LET m == MapsClone(heap, o, c.toolsClients)
      t == SlicesClone(m.heap, o, c.tools)
  IN  [heap |-> t.heap,
       c    |-> [tools |-> t.s, toolsClients |-> m.m, uniqueClients |-> NilSlice]]

\* convertToolsResultToLLMtools
convertToolsResultToLLMtools(mcpTools, clientName) ==
  [k \in 1..Len(mcpTools) |->
     [Name        |-> SprintfName(clientName, mcpTools[k].Name),
      Description |-> mcpTools[k].Description]]

\* Mutation of RegisterTools: a later registration of a name replaces the
\* map entry.
RECURSIVE RegisterToolsOverwrite(_, _, _, _, _, _, _, _)
RegisterToolsOverwrite(heap, o, c, sc, name, mcpTools, llmTools, i) ==
  IF i > Len(llmTools) THEN [heap |-> heap, c |-> c]
  ELSE LET tool  == llmTools[i]
           info  == [Client |-> sc, ClientName |-> name,
                     OriginalToolName |-> mcpTools[i].Name]
           heap1 == [heap EXCEPT ![c.toolsClients] =
                       (tool.Name :> info) @@ [q \in DOMAIN @ \ {tool.Name} |-> @[q]]]
       IN  IF tool.Name \in DOMAIN heap[c.toolsClients]
           THEN RegisterToolsOverwrite(heap1, o, c, sc, name, mcpTools, llmTools, i + 1)
           ELSE LET a == GoAppend(heap1, o, c.tools, tool)
                IN  RegisterToolsOverwrite(a.heap, o, [c EXCEPT !.tools = a.s], sc, name,
                                           mcpTools, llmTools, i + 1)

\* The loop of RegisterClient over llmTools, from index i on.
RECURSIVE RegisterTools(_, _, _, _, _, _, _, _)
RegisterTools(heap, o, c, sc, name, mcpTools, llmTools, i) ==
  IF i > Len(llmTools) THEN [heap |-> heap, c |-> c]
  ELSE LET tool == llmTools[i]
       IN  IF tool.Name \in DOMAIN heap[c.toolsClients]
           THEN RegisterTools(heap, o, c, sc, name, mcpTools, llmTools, i + 1)
           ELSE LET info  == [Client |-> sc, ClientName |-> name,
                              OriginalToolName |-> mcpTools[i].Name]
                    heap1 == [heap EXCEPT ![c.toolsClients] = (tool.Name :> info) @@ @]
                    a     == GoAppend(heap1, o, c.tools, tool)
                IN  RegisterTools(a.heap, o, [c EXCEPT !.tools = a.s], sc, name,
                                  mcpTools, llmTools, i + 1)

ErrStart == <<"f","a","i","l","e","d"," ","t","o"," ","s","t","a","r","t"," ","c","l","i","e","n","t"," ","f","o","r"," ">>
ErrInit  == <<"f","a","i","l","e","d"," ","t","o"," ","i","n","i","t","i","a","l","i","z","e"," ","c","l","i","e","n","t"," ","f","o","r"," ">>
ErrList  == <<"f","a","i","l","e","d"," ","t","o"," ","l","i","s","t"," ","t","o","o","l","s"," ","f","o","r"," ">>
ErrClose == <<"f","a","i","l","e","d"," ","t","o"," ","c","l","o","s","e"," ","c","l","i","e","n","t"," ","f","o","r"," ">>

\* Error values: nil, or an error with its message.
NilErr == [isNil |-> TRUE, msg |-> <<>>]
Err(msg) == [isNil |-> FALSE, msg |-> msg]

\* fmt.Errorf("<prefix>%s: %w", name, err)
Errorf(prefix, name, cause) == Err(prefix \o name \o <<":", " ">> \o cause.msg)

\* Decimal digits, for integers 0..9.
Digit(n) == CASE n = 0 -> "0" [] n = 1 -> "1" [] n = 2 -> "2" [] n = 3 -> "3"
              [] n = 4 -> "4" [] n = 5 -> "5" [] n = 6 -> "6" [] n = 7 -> "7"
              [] n = 8 -> "8" [] n = 9 -> "9"

\* errors.Join(errs...): the messages, one per line.
RECURSIVE Join(_)
Join(errs) ==
  IF Len(errs) = 1 THEN errs[1].msg
  ELSE errs[1].msg \o <<"\n">> \o Join(Tail(errs))

\* Clients.RegisterClient(ctx, sc, name, timeout) on registry c (owner o),
\* where the server answers per outcome, lists mcpTools, and its Close
\* fails iff closeErr.  Returns the heap, the registry, sc's connection
\* state and the error.
RegisterClient(heap, o, c, sc, name, mcpTools, outcome, closeErr) ==
  IF outcome = "startErr"
  THEN [heap |-> heap, c |-> c, conn |-> NewConn,
        err |-> Errorf(ErrStart, name, ErrCause)]
  ELSE IF outcome = "initErr"
  THEN [heap |-> heap, c |-> c, conn |-> [NewConn EXCEPT !.status = "open"],
        err |-> Errorf(ErrInit, name, ErrCause)]
  ELSE IF outcome = "listErr"
  THEN [heap |-> heap, c |-> c, conn |-> [NewConn EXCEPT !.status = "open"],
        err |-> Errorf(ErrList, name, ErrCause)]
  ELSE IF Len(mcpTools) = 0
  THEN [heap |-> heap, c |-> c, conn |-> ConnClose(NewConn),
        err |-> IF closeErr THEN Errorf(ErrClose, name, ErrCause) ELSE NilErr]
  ELSE LET u == GoAppend(heap, o, c.uniqueClients, sc)
           r == RegisterTools(u.heap, o, [c EXCEPT !.uniqueClients = u.s], sc, name,
                              mcpTools, convertToolsResultToLLMtools(mcpTools, name), 1)
       IN  [heap |-> r.heap, c |-> r.c, conn |-> [NewConn EXCEPT !.status = "open"],
            err |-> NilErr]

\* The connections Clients.Close closes: its uniqueClients, in order.
CloseTargets(heap, c) == Elems(heap, c.uniqueClients)

\* The errs slice of Clients.Close from index k of uniqueClients on: the
\* loop variable called name is the slice index, printed with %s.
RECURSIVE CloseErrs(_, _, _)
CloseErrs(targets, failing, k) ==
  IF k > Len(targets) THEN <<>>
  ELSE (IF targets[k] \in failing
        THEN <<Errorf(ErrClose, <<"%","!","s","(","i","n","t","=">> \o <<Digit(k - 1), ")">>, ErrCause)>>
        ELSE <<>>) \o CloseErrs(targets, failing, k + 1)

\* Mutation of Close: the loop returns at the first failure.
CloseStopsAtFailure(heap, cs, c, failing) ==
  LET targets == CloseTargets(heap, c)
      bad     == {k \in 1..Len(targets) : targets[k] \in failing}
      last    == IF bad = {} THEN Len(targets)
                 ELSE CHOOSE k \in bad : \A j \in bad : k <= j
      times(x) == Cardinality({k \in 1..last : targets[k] = x})
  IN  [conns |-> [x \in DOMAIN cs |->
                    IF times(x) = 0 THEN cs[x]
                    ELSE [status |-> "closed", closes |-> cs[x].closes + times(x)]],
       err   |-> IF bad = {} THEN NilErr
                 ELSE Errorf(ErrClose, <<"%","!","s","(","i","n","t","=">>
                                       \o <<Digit(last - 1), ")">>, ErrCause)]

\* Clients.Close: every client of uniqueClients is closed, in order; the
\* failures (the clients in failing) are collected and joined.
Close(heap, cs, c, failing) ==
  LET targets == CloseTargets(heap, c)
      times(x) == Cardinality({k \in 1..Len(targets) : targets[k] = x})
      errs == CloseErrs(targets, failing, 1)
  IN  [conns |-> [x \in DOMAIN cs |->
                    IF times(x) = 0 THEN cs[x]
                    ELSE [status |-> "closed", closes |-> cs[x].closes + times(x)]],
       err   |-> IF Len(errs) > 0 THEN Err(Join(errs)) ELSE NilErr]

\* What an MCP server can answer to a tools/call request: a transport or
\* protocol failure, or a result with the IsError flag and content parts.
TextContent(text) == [type |-> "text", Text |-> text]
ImageContent == [type |-> "image", Text |-> <<>>]

ErrNoClient   == <<"n","o"," ","c","l","i","e","n","t"," ","f","o","u","n","d"," ","f","o","r"," ","t","o","o","l"," ">>
ErrCallTool   == <<"f","a","i","l","e","d"," ","t","o"," ","c","a","l","l"," ","t","o","o","l"," ">>
UnknownError  == <<"U","n","k","n","o","w","n"," ","e","r","r","o","r">>

\* strings concatenated over the text parts of result.Content.
RECURSIVE ResultText(_)
ResultText(content) ==
  IF Len(content) = 0 THEN <<>>
  ELSE (IF content[1].type = "text" THEN content[1].Text ELSE <<>>)
       \o ResultText(Tail(content))

\* Mutation of CallToolLookup: a tool is also found under its original name.
CallToolLookupByOriginal(m, name) ==
  IF name \in DOMAIN m
  THEN [toolInfo |-> m[name], err |-> NilErr]
  ELSE IF \E q \in DOMAIN m : m[q].OriginalToolName = name
  THEN [toolInfo |-> m[CHOOSE q \in DOMAIN m : m[q].OriginalToolName = name],
        err |-> NilErr]
  ELSE [toolInfo |-> [Client |-> Client(0, <<>>), ClientName |-> <<>>,
                      OriginalToolName |-> <<>>],
        err |-> Err(ErrNoClient \o name)]

\* Clients.CallTool, lines 33-36: the lookup that precedes any request.
\* m is the registry's toolsClients map.
CallToolLookup(m, name) ==
  IF name \in DOMAIN m
  THEN [toolInfo |-> m[name], err |-> NilErr]
  ELSE [toolInfo |-> [Client |-> Client(0, <<>>), ClientName |-> <<>>,
                      OriginalToolName |-> <<>>],
        err |-> Err(ErrNoClient \o name)]

\* Mutation of CallToolRequest: the request carries the qualified name.
CallToolRequestQualified(toolInfo, args) ==
  [Client |-> toolInfo.Client,
   Name |-> SprintfName(toolInfo.ClientName, toolInfo.OriginalToolName),
   Arguments |-> args]

\* Clients.CallTool, lines 39-42: the request sent to toolInfo.Client.
CallToolRequest(toolInfo, args) ==
  [Client |-> toolInfo.Client, Name |-> toolInfo.OriginalToolName, Arguments |-> args]

\* Clients.CallTool, lines 45-75: what it returns for the server's answer.
CallToolResult(name, answer) ==
  IF ~answer.err.isNil
  THEN [text |-> <<>>, err |-> Err(ErrCallTool \o name \o <<":", " ">> \o answer.err.msg)]
  ELSE IF answer.IsError
  THEN [text |-> <<>>,
        err  |-> Err(IF Len(answer.Content) > 0
                     THEN (IF answer.Content[1].type = "text"
                           THEN answer.Content[1].Text ELSE UnknownError)
                     ELSE UnknownError)]
  ELSE [text |-> ResultText(answer.Content), err |-> NilErr]

(***************************************************************************)
(* Package session: Session.                                               *)
(***************************************************************************)
endSessionPhrase == <<"i","n","v","e","s","t","i","g","a","t","i","o","n"," ","c","o","m","p","l","e","t","e">>
motivationText == <<"P","r","o","v","i","d","e"," ","n","e","x","t"," ","s","t","e","p","s"," ","t","o"," ","c","o","n","t","i","n","u","e"," ","t","h","e"," ","i","n","v","e","s","t","i","g","a","t","i","o","n",".">>
concludeText == <<"Y","o","u"," ","m","u","s","t"," ","n","o","w"," ","c","o","m","p","l","e","t","e"," ","y","o","u","r"," ","i","n","v","e","s","t","i","g","a","t","i","o","n"," ","a","n","d"," ","p","r","o","v","i","d","e"," ","a"," ","f","i","n","a","l"," ","r","e","s","p","o","n","s","e",".">>
\* The rendered system prompt: the template names the end-of-session phrase.
systemPrompt == <<"S","a","y",":"," ">> \o endSessionPhrase

ErrCallLLM   == <<"f","a","i","l","e","d"," ","t","o"," ","c","a","l","l"," ","L","L","M",":"," ">>
ErrUnmarshal == <<"f","a","i","l","e","d"," ","t","o"," ","u","n","m","a","r","s","h","a","l"," ","t","o","o","l"," ","c","a","l","l"," ","a","r","g","u","m","e","n","t","s",":"," ">>
ErrMarshal   == <<"f","a","i","l","e","d"," ","t","o"," ","m","a","r","s","h","a","l"," ","a","l","e","r","t",":"," ">>
ErrPrefix    == <<"E","r","r","o","r",":"," ">>
ErrJSON      == [isNil |-> FALSE, msg |-> <<"u","n","e","x","p","e","c","t","e","d"," ","e","n","d"," ","o","f"," ","J","S","O","N"," ","i","n","p","u","t">>]

\* json.Marshal of an alert: alerts are the integers 1..9.
Marshal(alert) == <<Digit(alert)>>

\* json.Unmarshal(data, &args) into a map[string]interface{}: null leaves
\* the map empty, an object fills it; the objects recognised here are {} and
\* {"k":d} for a one-character key and a digit.  Anything else is an error.
Unmarshal(data) ==
  IF data = <<"n","u","l","l">> \/ data = <<"{","}">>
  THEN [args |-> <<>>, err |-> NilErr]
  ELSE IF /\ Len(data) = 7
          /\ data[1] = "{" /\ data[2] = "\"" /\ data[4] = "\"" /\ data[5] = ":"
          /\ data[6] \in {"0","1","2","3","4","5","6","7","8","9"} /\ data[7] = "}"
  THEN [args |-> <<[key |-> data[3], value |-> data[6]]>>, err |-> NilErr]
  ELSE [args |-> <<>>, err |-> ErrJSON]

\* The zero llms.ContentChoice.
NoResponse == [Content |-> <<>>, ReasoningContent |-> <<>>, ToolCalls |-> <<>>]

\* session.New, after os.OpenFile succeeded.
NewSession(id, alert, maxToolCalls) ==
  [pc |-> "init", ID |-> id, alert |-> alert, maxCalls |-> maxToolCalls,
   logFile |-> "open", logCloses |-> 0, transcript |-> <<>>, messages |-> <<>>,
   finalErr |-> NilErr, i |-> 0, lastCall |-> FALSE, toolCalls |-> <<>>, k |-> 0,
   llmResponse |-> NoResponse, llmCalls |-> 0, dispatched |-> <<>>,
   outcome |-> "none", runErr |-> NilErr]

TextPart(text) == [type |-> "text", Text |-> text]

\* Mutation of addToContext: the message is put in front of the history.
addToContextInFront(S, role, part) ==
  [S EXCEPT !.messages = <<[Role |-> role, Part |-> part]>> \o @]

\* Session.addToContext
addToContext(S, role, part) ==
  [S EXCEPT !.messages = Append(@, [Role |-> role, Part |-> part])]

\* Session.log: a section appended to the log file; the write fails
\* (silently) once the file is closed.
log(S, section) ==
  IF S.logFile = "open" THEN [S EXCEPT !.transcript = Append(@, section)] ELSE S

\* Mutation of RunReturn: the file is closed before the deferred sections
\* are written.
RunReturnCloseFirst(S, outcome) ==
  LET S0 == [S EXCEPT !.logFile = "closed", !.logCloses = @ + 1]
      S1 == IF ~S0.finalErr.isNil
            THEN log(S0, [sec |-> "Error", text |-> S0.finalErr.msg]) ELSE S0
      S2 == log(S1, [sec |-> "Session end", text |-> <<>>])
  IN  [S2 EXCEPT !.pc = "done", !.outcome = outcome]

\* The deferred calls of Session.Run, in their order: the error and
\* "Session end" sections, then logFile.Close().  outcome names the return
\* statement reached.
RunReturn(S, outcome) ==
  LET S1 == IF ~S.finalErr.isNil
            THEN log(S, [sec |-> "Error", text |-> S.finalErr.msg]) ELSE S
      S2 == log(S1, [sec |-> "Session end", text |-> <<>>])
  IN  [S2 EXCEPT !.logFile = "closed", !.logCloses = @ + 1, !.pc = "done",
                 !.outcome = outcome]

\* Session.Run, lines 140-160: the alert and the prompt seed the history,
\* the header is written.  tools is s.mcpClients.GetTools().
RunInit(S, tools, marshalErr) ==
  IF marshalErr
  THEN RunReturn([S EXCEPT !.finalErr = Err(ErrMarshal \o ErrJSON.msg)], "FAILED")
  ELSE LET alertBytes == Marshal(S.alert)
           S1 == addToContext(S, "human", TextPart(alertBytes))
           S2 == addToContext(S1, "system", TextPart(systemPrompt))
           S3 == log(S2, [sec |-> "Session initialized", text |-> <<>>])
           S4 == log(S3, [sec |-> "Alert", text |-> alertBytes])
           S5 == log(S4, [sec |-> "Prompt", text |-> systemPrompt])
           S6 == log(S5, [sec |-> "Tools", text |-> [k \in 1..Len(tools) |-> tools[k].Name]])
           S7 == log(S6, [sec |-> "Session start LLM", text |-> <<>>])
       IN  [S7 EXCEPT !.pc = "loop", !.i = 0]

\* Mutation of LoopTop: the loop bound and the last call are off by one.
LoopTopOffByOne(S, done) ==
  IF ~(S.i <= S.maxCalls) THEN RunReturn(S, "BUDGET_EXHAUSTED")
  ELSE IF done THEN RunReturn(S, "CANCELLED")
  ELSE LET lastCall == S.i = S.maxCalls
           S1 == IF lastCall THEN addToContext(S, "system", TextPart(concludeText)) ELSE S
       IN  [S1 EXCEPT !.pc = "llm", !.lastCall = lastCall, !.llmCalls = @ + 1]

\* Mutation of LoopTop: the context is not looked at.
LoopTopNoCancel(S, done) ==
  IF ~(S.i < S.maxCalls) THEN RunReturn(S, "BUDGET_EXHAUSTED")
  ELSE LET lastCall == S.i = S.maxCalls - 1
           S1 == IF lastCall THEN addToContext(S, "system", TextPart(concludeText)) ELSE S
       IN  [S1 EXCEPT !.pc = "llm", !.lastCall = lastCall, !.llmCalls = @ + 1]

\* Mutation of LoopTop: a cancelled run waits at the top of its loop.
LoopTopWaitsOnCancel(S, done) ==
  IF ~(S.i < S.maxCalls) THEN RunReturn(S, "BUDGET_EXHAUSTED")
  ELSE IF done THEN S
  ELSE LET lastCall == S.i = S.maxCalls - 1
           S1 == IF lastCall THEN addToContext(S, "system", TextPart(concludeText)) ELSE S
       IN  [S1 EXCEPT !.pc = "llm", !.lastCall = lastCall, !.llmCalls = @ + 1]

\* Mutation of LoopTop: the instruction to conclude is added before every
\* model call.
LoopTopConcludeAlways(S, done) ==
  IF ~(S.i < S.maxCalls) THEN RunReturn(S, "BUDGET_EXHAUSTED")
  ELSE IF done THEN RunReturn(S, "CANCELLED")
  ELSE LET lastCall == S.i = S.maxCalls - 1
           S1 == addToContext(S, "system", TextPart(concludeText))
       IN  [S1 EXCEPT !.pc = "llm", !.lastCall = lastCall, !.llmCalls = @ + 1]

\* Session.Run, lines 161-175: the loop condition, the cancellation check,
\* the instruction of the last call, and the model invocation being issued.
LoopTop(S, done) ==
  IF ~(S.i < S.maxCalls) THEN RunReturn(S, "BUDGET_EXHAUSTED")
  ELSE IF done THEN RunReturn(S, "CANCELLED")
  ELSE LET lastCall == S.i = S.maxCalls - 1
           S1 == IF lastCall THEN addToContext(S, "system", TextPart(concludeText)) ELSE S
       IN  [S1 EXCEPT !.pc = "llm", !.lastCall = lastCall, !.llmCalls = @ + 1]

\* Mutation of MergeToolCalls: the choices are merged last to first.
RECURSIVE MergeToolCallsLastFirst(_)
MergeToolCallsLastFirst(choices) ==
  IF Len(choices) = 0 THEN <<>>
  ELSE MergeToolCallsLastFirst(Tail(choices)) \o choices[1].ToolCalls

\* The tool calls of all choices, merged in choice order.
RECURSIVE MergeToolCalls(_)
MergeToolCalls(choices) ==
  IF Len(choices) = 0 THEN <<>>
  ELSE choices[1].ToolCalls \o MergeToolCalls(Tail(choices))

\* Session.callLLM, after GenerateContent returned resp.
callLLM(resp) ==
  IF ~resp.err.isNil
  THEN [llmResponse |-> NoResponse,
        toolCalls |-> <<>>, err |-> resp.err]
  ELSE [llmResponse |-> resp.Choices[1], toolCalls |-> MergeToolCalls(resp.Choices),
        err |-> NilErr]

\* The phrase test of isInvestigationComplete.
HasEndPhrase(content) == Contains(ToLower(content), endSessionPhrase)

\* Mutation of isInvestigationComplete: a last call that proposes tool
\* calls is not the end.
isInvestigationCompleteUnlessTools(response, isLastCall) ==
  IF HasEndPhrase(response.Content) THEN TRUE
  ELSE IF ~isLastCall THEN FALSE
  ELSE response.ToolCalls = <<>>

\* Mutation of isInvestigationComplete: only the phrase ends the
\* investigation.
isInvestigationCompletePhraseOnly(response, isLastCall) ==
  HasEndPhrase(response.Content)

\* Session.isInvestigationComplete
isInvestigationComplete(response, isLastCall) ==
  IF HasEndPhrase(response.Content) THEN TRUE
  ELSE IF ~isLastCall THEN FALSE
  ELSE TRUE

\* Mutation of ToolResponse: a failed call is written to the log only.
ToolResponseLogOnly(S, toolCall, text, err) ==
  LET toolResponse == IF ~err.isNil THEN ErrPrefix \o err.msg ELSE text
      S1 == log(S, [sec |-> "Tool response",
                    text |-> <<toolCall.FunctionCall.Name, toolResponse>>])
  IN  IF ~err.isNil THEN S1
      ELSE addToContext(S1, "tool",
             [type |-> "toolResponse", ToolCallID |-> toolCall.ID,
              Name |-> toolCall.FunctionCall.Name, Content |-> TrimSpace(toolResponse)])

\* Session.Run, lines 225-237: the tool response written and appended.
ToolResponse(S, toolCall, text, err) ==
  LET toolResponse == IF ~err.isNil THEN ErrPrefix \o err.msg ELSE text
      S1 == log(S, [sec |-> "Tool response",
                    text |-> <<toolCall.FunctionCall.Name, toolResponse>>])
  IN  addToContext(S1, "tool",
        [type |-> "toolResponse", ToolCallID |-> toolCall.ID,
         Name |-> toolCall.FunctionCall.Name, Content |-> TrimSpace(toolResponse)])

\* Mutation of ToolLoop: arguments that do not parse are answered like a
\* failed call and the loop goes on.
RECURSIVE ToolLoopSkipBadArguments(_, _, _)
ToolLoopSkipBadArguments(S, m, k) ==
  IF k > Len(S.toolCalls)
  THEN [S EXCEPT !.pc = "loop", !.i = S.i + 1, !.toolCalls = <<>>, !.k = 0,
                 !.llmResponse = NoResponse]
  ELSE LET toolCall == S.toolCalls[k]
           S1 == addToContext(S, "ai",
                   [type |-> "toolCall", ID |-> toolCall.ID,
                    Name |-> toolCall.FunctionCall.Name,
                    Arguments |-> toolCall.FunctionCall.Arguments])
           S2 == log(S1, [sec |-> "Tool call",
                          text |-> <<toolCall.FunctionCall.Name,
                                     toolCall.FunctionCall.Arguments>>])
           u  == Unmarshal(toolCall.FunctionCall.Arguments)
           l  == CallToolLookup(m, toolCall.FunctionCall.Name)
       IN  IF ~u.err.isNil
           THEN ToolLoopSkipBadArguments(
                  ToolResponse(S2, toolCall, <<>>, Err(ErrUnmarshal \o u.err.msg)), m, k + 1)
           ELSE IF ~l.err.isNil
           THEN ToolLoopSkipBadArguments(ToolResponse(S2, toolCall, <<>>, l.err), m, k + 1)
           ELSE [S2 EXCEPT !.pc = "call", !.k = k,
                           !.dispatched = Append(@, [ID  |-> toolCall.ID,
                                                     req |-> CallToolRequest(l.toolInfo, u.args)])]

\* Session.Run, lines 208-238 from toolCalls[k] on, up to the next request
\* sent to a server: the tool call is appended and written, its arguments
\* parsed, and CallTool looks the tool up in m (the registry's map).  A
\* lookup failure is CallTool's answer without any request.
RECURSIVE ToolLoop(_, _, _)
ToolLoop(S, m, k) ==
  IF k > Len(S.toolCalls)
  THEN [S EXCEPT !.pc = "loop", !.i = S.i + 1, !.toolCalls = <<>>, !.k = 0,
                 !.llmResponse = NoResponse]
  ELSE LET toolCall == S.toolCalls[k]
           S1 == addToContext(S, "ai",
                   [type |-> "toolCall", ID |-> toolCall.ID,
                    Name |-> toolCall.FunctionCall.Name,
                    Arguments |-> toolCall.FunctionCall.Arguments])
           S2 == log(S1, [sec |-> "Tool call",
                          text |-> <<toolCall.FunctionCall.Name,
                                     toolCall.FunctionCall.Arguments>>])
           u  == Unmarshal(toolCall.FunctionCall.Arguments)
           l  == CallToolLookup(m, toolCall.FunctionCall.Name)
       IN  IF ~u.err.isNil
           THEN RunReturn([S2 EXCEPT !.finalErr = Err(ErrUnmarshal \o u.err.msg)], "FAILED")
           ELSE IF ~l.err.isNil
           THEN ToolLoop(ToolResponse(S2, toolCall, <<>>, l.err), m, k + 1)
           ELSE [S2 EXCEPT !.pc = "call", !.k = k,
                           !.dispatched = Append(@, [ID  |-> toolCall.ID,
                                                     req |-> CallToolRequest(l.toolInfo, u.args)])]

\* Mutation of AfterLLM: a failed model call is passed over and the loop
\* goes on to its next iteration.
AfterLLMFailureSkipped(S, m, resp) ==
  LET r == callLLM(resp)
  IN  IF ~r.err.isNil
      THEN [S EXCEPT !.pc = "loop", !.i = @ + 1]
      ELSE
      LET S0 == [S EXCEPT !.llmResponse = r.llmResponse, !.toolCalls = r.toolCalls]
          S1 == IF r.llmResponse.ReasoningContent # <<>>
                THEN log(S0, [sec |-> "LLM reasoning", text |-> r.llmResponse.ReasoningContent])
                ELSE S0
      IN  IF isInvestigationComplete(r.llmResponse, S.lastCall)
          THEN RunReturn(S1, IF HasEndPhrase(r.llmResponse.Content)
                             THEN "COMPLETE" ELSE "BUDGET_EXHAUSTED")
          ELSE
          LET trimmedContent == TrimSpace(r.llmResponse.Content)
              S2 == IF trimmedContent # <<>>
                    THEN addToContext(S1, "ai", TextPart(trimmedContent)) ELSE S1
              S3 == log(S2, [sec |-> "LLM response", text |-> trimmedContent])
              S4 == IF Len(r.toolCalls) = 0
                    THEN log(addToContext(S3, "human", TextPart(motivationText)),
                             [sec |-> "Insist LLM to provide next steps",
                              text |-> motivationText])
                    ELSE S3
          IN  ToolLoop(S4, m, 1)

\* Session.Run, lines 175-238, once GenerateContent returned resp.
AfterLLM(S, m, resp) ==
  LET r == callLLM(resp)
  IN  IF ~r.err.isNil
      THEN RunReturn([S EXCEPT !.finalErr = Err(ErrCallLLM \o r.err.msg)], "FAILED")
      ELSE
      LET S0 == [S EXCEPT !.llmResponse = r.llmResponse, !.toolCalls = r.toolCalls]
          S1 == IF r.llmResponse.ReasoningContent # <<>>
                THEN log(S0, [sec |-> "LLM reasoning", text |-> r.llmResponse.ReasoningContent])
                ELSE S0
      IN  IF isInvestigationComplete(r.llmResponse, S.lastCall)
          THEN RunReturn(S1, IF HasEndPhrase(r.llmResponse.Content)
                             THEN "COMPLETE" ELSE "BUDGET_EXHAUSTED")
          ELSE
          LET trimmedContent == TrimSpace(r.llmResponse.Content)
              S2 == IF trimmedContent # <<>>
                    THEN addToContext(S1, "ai", TextPart(trimmedContent)) ELSE S1
              S3 == log(S2, [sec |-> "LLM response", text |-> trimmedContent])
              S4 == IF Len(r.toolCalls) = 0
                    THEN log(addToContext(S3, "human", TextPart(motivationText)),
                             [sec |-> "Insist LLM to provide next steps",
                              text |-> motivationText])
                    ELSE S3
          IN  ToolLoop(S4, m, 1)

\* Mutation of AfterTool: a failed tool call ends the run.
AfterToolFatal(S, m, answer) ==
  LET toolCall == S.toolCalls[S.k]
      r == CallToolResult(toolCall.FunctionCall.Name, answer)
  IN  IF ~r.err.isNil
      THEN RunReturn([S EXCEPT !.finalErr = r.err], "FAILED")
      ELSE ToolLoop(ToolResponse(S, toolCall, r.text, r.err), m, S.k + 1)

\* Session.Run, lines 222-238, once the server answered the request of
\* toolCalls[k]; then the loop goes on with toolCalls[k+1].
AfterTool(S, m, answer) ==
  LET toolCall == S.toolCalls[S.k]
      r == CallToolResult(toolCall.FunctionCall.Name, answer)
  IN  ToolLoop(ToolResponse(S, toolCall, r.text, r.err), m, S.k + 1)

(***************************************************************************)
(* State.                                                                  *)
(***************************************************************************)
VARIABLES
  heap,      \* the Go heap: reference -> backing array or map
  conns,     \* client.Client -> [status, closes]
  regs,      \* registry id -> Clients value (Nil before it exists)
  regLeft,   \* registry id -> servers RegisterServersConfig has yet to range over
  ctxDone,   \* the shared context is cancelled
  maxCalls,  \* conf.MaxCalls
  mode,      \* "continuous", "batch", or "api" (the registry used as a library)
  mainPc,    \* where runContinuousMode / processSingleAlert stands
  producer,  \* opsgenie Service.Start: [pc, sent, pending]
  queue,     \* alertsChan (capacity 1)
  listenPc,  \* where Listen's own goroutine stands
  recv,      \* Listen's receiving goroutine: [pc, alert]
  wg,        \* Listen's sync.WaitGroup counter
  sess,      \* session id -> the goroutine running run() and its Session
  ret        \* "api" mode: the last call made on a registry and what it returned

vars == <<heap, conns, regs, regLeft, ctxDone, maxCalls, mode, mainPc, producer,
          queue, listenPc, recv, wg, sess, ret>>

regVars == <<heap, conns, regs>>
sysVars == <<regLeft, ctxDone, maxCalls, mode, mainPc, producer, queue, listenPc,
             recv, wg, sess>>

\* Session ids: the n-th alert received is handled by session n.
Sessions == 1..MaxAlerts
\* Registry ids: 0 is the shared mcpClients, s is session s's sessionClients.
Base == 0
Registries == {Base} \cup Sessions

\* A session id whose goroutine has not been started.
NoSession ==
  [pc |-> "idle", ID |-> 0, alert |-> 0, maxCalls |-> 0,
   logFile |-> "none", logCloses |-> 0, transcript |-> <<>>, messages |-> <<>>,
   finalErr |-> NilErr, i |-> 0, lastCall |-> FALSE, toolCalls |-> <<>>, k |-> 0,
   llmResponse |-> NoResponse, llmCalls |-> 0, dispatched |-> <<>>,
   outcome |-> "none", runErr |-> NilErr]

AllClients == {Client(o, n) : o \in Registries, n \in DOMAIN MCPServers}

\* No call made yet.  A call is recorded with its operation, the registry
\* it was made on, its inputs (name, args, the environment's answers), the
\* requests it sent to connections (sent), and its results (text, err).
NoRet ==
  [op |-> "none", r |-> 0, name |-> <<>>, args |-> <<>>, outcome |-> "ok",
   closeErr |-> FALSE, failing |-> {},
   answer |-> [err |-> NilErr, IsError |-> FALSE, Content |-> <<>>],
   sent |-> <<>>, text |-> <<>>, err |-> NilErr]

(***************************************************************************)
(* The registry used as a library: New, Clone, RegisterClient and Close    *)
(* called in any order on a few registries.                                *)
(***************************************************************************)
\* Registrations the library specification performs in all.
MaxApiRegisters == 2
\* Times the library specification closes one connection.
MaxApiCloses == 2

ApiRegistries == {0, 1, 2}

ApiNew(r) ==
  /\ regs[r] = NoClients
  /\ LET n == New(heap, r)
     IN  /\ heap' = n.heap
         /\ regs' = [regs EXCEPT ![r] = n.c]
  /\ UNCHANGED <<conns, sysVars>>

ApiClone(r1, r2) ==
  /\ regs[r1] # NoClients
  /\ regs[r2] = NoClients
  /\ LET n == Clone(heap, r2, regs[r1])
     IN  /\ heap' = n.heap
         /\ regs' = [regs EXCEPT ![r2] = n.c]
  /\ UNCHANGED <<conns, sysVars>>

ApiRegisterClient(r, name, outcome, closeErr) ==
  /\ regs[r] # NoClients
  /\ conns[Client(r, name)].status = "new"
  /\ Cardinality({x \in AllClients : conns[x].status # "new"}) < MaxApiRegisters
  /\ LET n == RegisterClient(heap, r, regs[r], Client(r, name), name,
                             ServerTools[name], outcome, closeErr)
     IN  /\ heap' = n.heap
         /\ regs' = [regs EXCEPT ![r] = n.c]
         /\ conns' = [conns EXCEPT ![Client(r, name)] = n.conn]
  /\ UNCHANGED sysVars

ApiClose(r, failing) ==
  /\ regs[r] # NoClients
  /\ \A k \in 1..Len(CloseTargets(heap, regs[r])) :
       conns[CloseTargets(heap, regs[r])[k]].closes < MaxApiCloses
  /\ conns' = Close(heap, conns, regs[r], failing).conns
  /\ UNCHANGED <<heap, regs, sysVars>>

InitRegistry ==
  /\ heap = <<>>
  /\ conns = [x \in AllClients |-> NewConn]
  /\ regs = [r \in Registries |-> NoClients]
  /\ regLeft = [r \in Registries |-> {}]
  /\ ctxDone = FALSE
  /\ maxCalls = 0
  /\ mode = "api"
  /\ mainPc = "idle"
  /\ producer = [pc |-> "idle", sent |-> 0, pending |-> 0]
  /\ queue = <<>>
  /\ listenPc = "idle"
  /\ recv = [pc |-> "idle", alert |-> 0]
  /\ wg = 0
  /\ sess = [s \in Sessions |-> NoSession]
  /\ ret = NoRet

NextRegistry ==
  \/ \E r \in ApiRegistries : ApiNew(r) /\ UNCHANGED ret
  \/ \E r1 \in ApiRegistries, r2 \in ApiRegistries : ApiClone(r1, r2) /\ UNCHANGED ret
  \/ \E r \in ApiRegistries, name \in DOMAIN MCPServers,
        outcome \in {"ok", "initErr"}, closeErr \in BOOLEAN :
       ApiRegisterClient(r, name, outcome, closeErr) /\ UNCHANGED ret
  \/ \E r \in ApiRegistries, failing \in {{}, AllClients} :
       ApiClose(r, failing) /\ UNCHANGED ret

SpecRegistry == InitRegistry /\ [][NextRegistry]_vars

(***************************************************************************)
(* Inputs: what the model, the MCP servers and the operating system may    *)
(* answer.                                                                 *)
(***************************************************************************)
CSpace == <<" ">>
CStep  == <<" ","g","o","\n">>
CDone  == <<"I","n","v","e","s","t","i","g","a","t","i","o","n"," ","C","o","m","p","l","e","t","e","."," ","c","l","o","s","i","n","g"," ","u","p",".">>
CUpper == <<"I","N","V","E","S","T","I","G","A","T","I","O","N"," ","C","O","M","P","L","E","T","E">>

ToolCall(id, name, arguments) ==
  [ID |-> id, FunctionCall |-> [Name |-> name, Arguments |-> arguments]]

\* Tool calls the model proposes in iteration i; ids are unique in a session.
TCx(i)   == ToolCall(<<"x", Digit(i)>>, SprintfName(SrvA, <<"x">>), <<"{","}">>)
TCy(i)   == ToolCall(<<"y", Digit(i)>>, SprintfName(SrvAB, <<"y">>), <<"{","\"","k","\"",":","1","}">>)
TCq(i)   == ToolCall(<<"q", Digit(i)>>, <<"q">>, <<"n","u","l","l">>)
TCbad(i) == ToolCall(<<"b", Digit(i)>>, SprintfName(SrvA, <<"x">>), <<"{">>)

Choice(content, reasoning, toolCalls) ==
  [Content |-> content, ReasoningContent |-> reasoning, ToolCalls |-> toolCalls]

\* What GenerateContent returns: an error, or a response of one or more
\* choices (callLLM indexes resp.Choices[0] without a length test).
LLMError == [err |-> ErrCause, Choices |-> <<>>]
LLMOk(choices) == [err |-> NilErr, Choices |-> choices]

\* The few answers used where several sessions run at once.
CoreResponses(i) ==
  { LLMError,
    LLMOk(<<Choice(CDone, <<>>, <<>>)>>),
    LLMOk(<<Choice(CStep, <<>>, <<TCx(i)>>)>>),
    LLMOk(<<Choice(CStep, <<>>, <<TCbad(i)>>)>>) }

\* The answers used where one session runs alone.
Responses(i) ==
  CoreResponses(i) \cup
  { LLMOk(<<Choice(CDone, <<>>, <<TCx(i)>>)>>),
    LLMOk(<<Choice(CUpper, <<>>, <<TCy(i)>>)>>),
    LLMOk(<<Choice(CSpace, <<>>, <<>>)>>),
    LLMOk(<<Choice(CStep, <<"h","m">>, <<>>)>>),
    LLMOk(<<Choice(CStep, <<>>, <<TCx(i)>>), Choice(CDone, <<>>, <<TCy(i)>>)>>),
    LLMOk(<<Choice(CStep, <<>>, <<TCq(i), TCbad(i)>>)>>),
    LLMOk(<<Choice(CStep, <<>>, <<TCx(i), TCbad(i), TCy(i)>>)>>) }

ToolError == [err |-> ErrCause, IsError |-> FALSE, Content |-> <<>>]
ToolOk(isError, content) == [err |-> NilErr, IsError |-> isError, Content |-> content]

CoreAnswers == { ToolOk(FALSE, <<TextContent(<<" ","r"," ">>)>>) }

Answers ==
  CoreAnswers \cup
  { ToolError,
    ToolOk(TRUE, <<TextContent(<<"n","o">>)>>),
    ToolOk(TRUE, <<TextContent(<<"n","o","\n">>)>>),
    ToolOk(TRUE, <<>>),
    ToolOk(FALSE, <<TextContent(<<"r">>), ImageContent, TextContent(<<"s">>)>>) }

(***************************************************************************)
(* The process: cmd/oka (runner, runContinuousMode, processSingleAlert),   *)
(* opsgenie Service.Start, session.Listen, session.run and                 *)
(* session.ProcessSingleAlert.                                             *)
(***************************************************************************)
\* The process has not exited.
Alive == mainPc \notin {"returned", "failed"}

\* The wg.Done() deferred around run(), when run returns in this step.
WgDone(s) ==
  wg' = IF mode = "continuous" /\ sess'[s].pc = "done" THEN wg - 1 ELSE wg

\* Mutation of RegisterServersConfigIter: a failed registration is passed
\* over and the loop goes on.
RegisterServersConfigIterContinue(h, o, c, name, done, newClientErr, outcome, closeErr) ==
  IF done
  THEN [heap |-> h, c |-> c, conn |-> NewConn, status |-> "nil", err |-> NilErr]
  ELSE IF MCPServers[name].Disabled
  THEN [heap |-> h, c |-> c, conn |-> NewConn, status |-> "continue", err |-> NilErr]
  ELSE IF newClientErr
  THEN [heap |-> h, c |-> c, conn |-> NewConn, status |-> "err", err |-> ErrCause]
  ELSE LET r == RegisterClient(h, o, c, Client(o, name), name, ServerTools[name],
                               outcome, closeErr)
       IN  [heap |-> r.heap, c |-> r.c, conn |-> r.conn,
            status |-> "continue", err |-> NilErr]

\* One iteration of the range loop of RegisterServersConfig on registry c
\* (owner o) over the key name.  status says how the loop goes on:
\* "continue", "nil" (returned nil) or "err" (returned err).
RegisterServersConfigIter(h, o, c, name, done, newClientErr, outcome, closeErr) ==
  IF done
  THEN [heap |-> h, c |-> c, conn |-> NewConn, status |-> "nil", err |-> NilErr]
  ELSE IF MCPServers[name].Disabled
  THEN [heap |-> h, c |-> c, conn |-> NewConn, status |-> "continue", err |-> NilErr]
  ELSE IF newClientErr
  THEN [heap |-> h, c |-> c, conn |-> NewConn, status |-> "err", err |-> ErrCause]
  ELSE LET r == RegisterClient(h, o, c, Client(o, name), name, ServerTools[name],
                               outcome, closeErr)
       IN  [heap |-> r.heap, c |-> r.c, conn |-> r.conn,
            status |-> IF r.err.isNil THEN "continue" ELSE "err", err |-> r.err]

\* run() or ProcessSingleAlert returning before a Session exists.
NoRun(S, err) == [S EXCEPT !.pc = "done", !.outcome = "NO_SESSION", !.runErr = err]

\* RegisterServersConfig, one iteration, in whichever goroutine runs it:
\* the main one (shared servers into mcpClients) or a session's (its own
\* servers into sessionClients).
RegisterServersConfigStep(r, name, newClientErr, outcome, closeErr) ==
  /\ Alive
  /\ \/ r = Base /\ mainPc = "register"
     \/ r \in Sessions /\ sess[r].pc = "register"
  /\ name \in regLeft[r]
  /\ LET it     == RegisterServersConfigIter(heap, r, regs[r], name, ctxDone,
                                             newClientErr, outcome, closeErr)
         left   == regLeft[r] \ {name}
         status == IF it.status = "continue" /\ left = {} THEN "nil" ELSE it.status
     IN  /\ heap' = it.heap
         /\ regs' = [regs EXCEPT ![r] = it.c]
         /\ conns' = [conns EXCEPT ![Client(r, name)] = it.conn]
         /\ regLeft' = [regLeft EXCEPT ![r] = IF status = "continue" THEN left ELSE {}]
         /\ IF r = Base
            THEN /\ mainPc' = CASE status = "continue" -> "register"
                                [] status = "nil" -> "setup"
                                [] status = "err" -> "failed"
                 /\ UNCHANGED <<sess, wg>>
            ELSE /\ sess' = [sess EXCEPT ![r] =
                               CASE status = "continue" -> @
                                 [] status = "nil" -> [@ EXCEPT !.pc = "new"]
                                 [] status = "err" -> NoRun(@, it.err)]
                 /\ WgDone(r)
                 /\ UNCHANGED mainPc
  /\ UNCHANGED <<ctxDone, maxCalls, mode, ret, producer, queue, listenPc, recv>>

\* A goroutine about to execute run(ctx, alert, ...), or ProcessSingleAlert
\* at its Clone.
Spawned(s, alert) == [NoSession EXCEPT !.pc = "clone", !.ID = s, !.alert = alert]

\* llm.New, the init commands and opsgenie.NewService (and GetAlert in batch
\* mode): on failure the function returns and the deferred
\* mcpClients.Close() runs; otherwise the services are started, or
\* ProcessSingleAlert is called.
MainSetup(ok) ==
  /\ mainPc = "setup"
  /\ IF ~ok
     THEN /\ conns' = Close(heap, conns, regs[Base], {}).conns
          /\ mainPc' = "returned"
          /\ UNCHANGED <<producer, listenPc, recv, sess>>
     ELSE IF mode = "continuous"
     THEN /\ mainPc' = "wait"
          /\ producer' = [producer EXCEPT !.pc = "select"]
          /\ listenPc' = "waitCtx"
          /\ recv' = [recv EXCEPT !.pc = "select"]
          /\ UNCHANGED <<conns, sess>>
     ELSE /\ mainPc' = "session"
          /\ sess' = [sess EXCEPT ![1] = Spawned(1, 1)]
          /\ UNCHANGED <<conns, producer, listenPc, recv>>
  /\ UNCHANGED <<heap, regs, regLeft, ctxDone, maxCalls, mode, ret, queue, wg>>

\* The signal goroutine of runner calls cancel(); in "session" mode the
\* caller of ProcessSingleAlert cancels the context it passed.
Cancel ==
  /\ Alive
  /\ mode # "batch"
  /\ ~ctxDone
  /\ ctxDone' = TRUE
  /\ UNCHANGED <<heap, conns, regs, regLeft, maxCalls, mode, ret, mainPc, producer, queue,
                 listenPc, recv, wg, sess>>

\* Service.Start: the ticker fires and n unacknowledged alerts are listed.
ProducerTick(n) ==
  /\ Alive
  /\ producer.pc = "select"
  /\ n \in 1..(MaxAlerts - producer.sent)
  /\ producer' = [producer EXCEPT !.pc = "send", !.pending = n]
  /\ UNCHANGED <<heap, conns, regs, regLeft, ctxDone, maxCalls, mode, ret, mainPc, queue,
                 listenPc, recv, wg, sess>>

\* Service.Start, line 70-81: GetAlert, then queryChan <- a, which blocks
\* while the channel's buffer (capacity 1) is full.  If GetAlert fails the
\* alert is skipped.
ProducerSend(getOk) ==
  /\ Alive
  /\ producer.pc = "send"
  /\ getOk => Len(queue) < 1
  /\ queue' = IF getOk THEN Append(queue, producer.sent + 1) ELSE queue
  /\ producer' = [pc      |-> IF producer.pending = 1 THEN "select" ELSE "send",
                  sent    |-> producer.sent + 1,
                  pending |-> producer.pending - 1]
  /\ UNCHANGED <<heap, conns, regs, regLeft, ctxDone, maxCalls, mode, ret, mainPc,
                 listenPc, recv, wg, sess>>

\* Service.Start, line 48: <-ctx.Done() is chosen.
ProducerReturn ==
  /\ Alive
  /\ producer.pc = "select"
  /\ ctxDone
  /\ producer' = [producer EXCEPT !.pc = "returned"]
  /\ UNCHANGED <<heap, conns, regs, regLeft, ctxDone, maxCalls, mode, ret, mainPc, queue,
                 listenPc, recv, wg, sess>>

\* Listen's receiving goroutine, line 54: <-ctx.Done() is chosen.
RecvReturn ==
  /\ Alive
  /\ recv.pc = "select"
  /\ ctxDone
  /\ recv' = [recv EXCEPT !.pc = "returned"]
  /\ UNCHANGED <<heap, conns, regs, regLeft, ctxDone, maxCalls, mode, ret, mainPc, producer,
                 queue, listenPc, wg, sess>>

\* Listen's receiving goroutine, line 56: alert := <-c is chosen.  Go's
\* select picks among the ready cases at random, so a cancelled context
\* does not disable this case.
RecvAlert ==
  /\ Alive
  /\ recv.pc = "select"
  /\ Len(queue) > 0
  /\ recv' = [pc |-> "add", alert |-> Head(queue)]
  /\ queue' = Tail(queue)
  /\ UNCHANGED <<heap, conns, regs, regLeft, ctxDone, maxCalls, mode, ret, mainPc, producer,
                 listenPc, wg, sess>>

\* Mutation of RecvSpawn: the goroutine is started without wg.Add(1).
RecvSpawnNoAdd ==
  /\ Alive
  /\ recv.pc = "add"
  /\ wg' = wg
  /\ sess' = [sess EXCEPT ![recv.alert] = Spawned(recv.alert, recv.alert)]
  /\ recv' = [pc |-> "select", alert |-> 0]
  /\ UNCHANGED <<heap, conns, regs, regLeft, ctxDone, maxCalls, mode, ret, mainPc, producer,
                 queue, listenPc>>

\* Listen's receiving goroutine, lines 57-61: wg.Add(1) and the go
\* statement that starts run() for the alert.
RecvSpawn ==
  /\ Alive
  /\ recv.pc = "add"
  /\ wg' = wg + 1
  /\ sess' = [sess EXCEPT ![recv.alert] = Spawned(recv.alert, recv.alert)]
  /\ recv' = [pc |-> "select", alert |-> 0]
  /\ UNCHANGED <<heap, conns, regs, regLeft, ctxDone, maxCalls, mode, ret, mainPc, producer,
                 queue, listenPc>>

\* Listen, line 66: <-ctx.Done() returns.
ListenCtxDone ==
  /\ Alive
  /\ listenPc = "waitCtx"
  /\ ctxDone
  /\ listenPc' = "wgWait"
  /\ UNCHANGED <<heap, conns, regs, regLeft, ctxDone, maxCalls, mode, ret, mainPc, producer,
                 queue, recv, wg, sess>>

\* Mutation of ListenReturn: Listen returns without waiting for the
\* sessions.
ListenReturnNoWait ==
  /\ Alive
  /\ listenPc = "wgWait"
  /\ listenPc' = "returned"
  /\ UNCHANGED <<heap, conns, regs, regLeft, ctxDone, maxCalls, mode, ret, mainPc, producer,
                 queue, recv, wg, sess>>

\* Listen, lines 68-71: wg.Wait() returns, and Listen returns nil.
ListenReturn ==
  /\ Alive
  /\ listenPc = "wgWait"
  /\ wg = 0
  /\ listenPc' = "returned"
  /\ UNCHANGED <<heap, conns, regs, regLeft, ctxDone, maxCalls, mode, ret, mainPc, producer,
                 queue, recv, wg, sess>>

\* runContinuousMode, lines 196-198: service.Wait() returns once both
\* services returned; the deferred mcpClients.Close() runs; the process
\* exits.
MainWaitReturn ==
  /\ mainPc = "wait"
  /\ producer.pc = "returned"
  /\ listenPc = "returned"
  /\ conns' = Close(heap, conns, regs[Base], {}).conns
  /\ mainPc' = "returned"
  /\ UNCHANGED <<heap, regs, regLeft, ctxDone, maxCalls, mode, ret, producer, queue,
                 listenPc, recv, wg, sess>>

\* Mutation of BatchReturn: ProcessSingleAlert does not wait for s.Run.
BatchReturnEarly ==
  /\ mainPc = "session"
  /\ sess[1].pc # "idle"
  /\ conns' = Close(heap, conns, regs[Base], {}).conns
  /\ mainPc' = "returned"
  /\ UNCHANGED <<heap, regs, regLeft, ctxDone, maxCalls, mode, ret, producer, queue,
                 listenPc, recv, wg, sess>>

\* processSingleAlert, lines 142-148: ProcessSingleAlert returned; the
\* deferred mcpClients.Close() runs; the process exits.
BatchReturn ==
  /\ mainPc = "session"
  /\ sess[1].pc = "done"
  /\ conns' = Close(heap, conns, regs[Base], {}).conns
  /\ mainPc' = "returned"
  /\ UNCHANGED <<heap, regs, regLeft, ctxDone, maxCalls, mode, ret, producer, queue,
                 listenPc, recv, wg, sess>>

\* run, line 76 / ProcessSingleAlert, line 113: sessionClients :=
\* mcpClients.Clone(), and RegisterServersConfig starts ranging over
\* conf.GetMCPServers(false).
SessionClone(s) ==
  /\ Alive
  /\ sess[s].pc = "clone"
  /\ LET n == Clone(heap, s, regs[Base])
     IN  /\ heap' = n.heap
         /\ regs' = [regs EXCEPT ![s] = n.c]
  /\ regLeft' = [regLeft EXCEPT ![s] = GetMCPServers(FALSE)]
  /\ sess' = [sess EXCEPT ![s].pc = IF GetMCPServers(FALSE) = {} THEN "new" ELSE "register"]
  /\ UNCHANGED <<conns, ctxDone, maxCalls, mode, ret, mainPc, producer, queue, listenPc,
                 recv, wg>>

\* run, lines 84-90: session.New (its os.OpenFile may fail), then s.Run up
\* to the top of its loop.
SessionNew(s, openErr, marshalErr) ==
  /\ Alive
  /\ sess[s].pc = "new"
  /\ sess' = [sess EXCEPT ![s] =
                IF openErr THEN NoRun(@, ErrCause)
                ELSE RunInit(NewSession(s, @.alert, maxCalls),
                             GetTools(heap, regs[s]), marshalErr)]
  /\ WgDone(s)
  /\ UNCHANGED <<heap, conns, regs, regLeft, ctxDone, maxCalls, mode, ret, mainPc, producer,
                 queue, listenPc, recv>>

\* Session.Run at the top of its loop.
SessionLoopTop(s) ==
  /\ Alive
  /\ sess[s].pc = "loop"
  /\ sess' = [sess EXCEPT ![s] = LoopTop(@, ctxDone)]
  /\ WgDone(s)
  /\ UNCHANGED <<heap, conns, regs, regLeft, ctxDone, maxCalls, mode, ret, mainPc, producer,
                 queue, listenPc, recv>>

\* Mutation of SessionLLMReturn: a failed model call ends the process.
SessionLLMReturnFatal(s, resp) ==
  /\ Alive
  /\ sess[s].pc = "llm"
  /\ sess' = [sess EXCEPT ![s] = AfterLLM(@, heap[regs[s].toolsClients], resp)]
  /\ WgDone(s)
  /\ mainPc' = IF resp.err.isNil THEN mainPc ELSE "failed"
  /\ UNCHANGED <<heap, conns, regs, regLeft, ctxDone, maxCalls, mode, ret, producer,
                 queue, listenPc, recv>>

\* GenerateContent returns resp to the session.
SessionLLMReturn(s, resp) ==
  /\ Alive
  /\ sess[s].pc = "llm"
  /\ sess' = [sess EXCEPT ![s] = AfterLLM(@, heap[regs[s].toolsClients], resp)]
  /\ WgDone(s)
  /\ UNCHANGED <<heap, conns, regs, regLeft, ctxDone, maxCalls, mode, ret, mainPc, producer,
                 queue, listenPc, recv>>

\* The request in flight.
InFlight(S) == S.dispatched[Len(S.dispatched)].req

\* Mutation of SessionToolReturn: the answer is handed to every session
\* waiting on the same connection.
SessionToolReturnBroadcast(s, answer) ==
  /\ Alive
  /\ sess[s].pc = "call"
  /\ conns[InFlight(sess[s]).Client].status = "closed" => ~answer.err.isNil
  /\ sess' = [t \in Sessions |->
                IF sess[t].pc = "call" /\ InFlight(sess[t]).Client = InFlight(sess[s]).Client
                THEN AfterTool(sess[t], heap[regs[t].toolsClients], answer)
                ELSE sess[t]]
  /\ wg' = IF mode = "continuous"
           THEN wg - Cardinality({t \in Sessions : sess[t].pc # "done" /\ sess'[t].pc = "done"})
           ELSE wg
  /\ UNCHANGED <<heap, conns, regs, regLeft, ctxDone, maxCalls, mode, ret, mainPc, producer,
                 queue, listenPc, recv>>

\* The MCP server answers the session's request; a closed connection
\* answers with a failure only.
SessionToolReturn(s, answer) ==
  /\ Alive
  /\ sess[s].pc = "call"
  /\ conns[InFlight(sess[s]).Client].status = "closed" => ~answer.err.isNil
  /\ sess' = [sess EXCEPT ![s] = AfterTool(@, heap[regs[s].toolsClients], answer)]
  /\ WgDone(s)
  /\ UNCHANGED <<heap, conns, regs, regLeft, ctxDone, maxCalls, mode, ret, mainPc, producer,
                 queue, listenPc, recv>>

\* After construction: client.New() done, RegisterServersConfig about to
\* range over the shared servers.
InitProcess ==
  /\ heap = New(<<>>, Base).heap
  /\ conns = [x \in AllClients |-> NewConn]
  /\ regs = [r \in Registries |-> IF r = Base THEN New(<<>>, Base).c ELSE NoClients]
  /\ regLeft = [r \in Registries |-> IF r = Base THEN GetMCPServers(TRUE) ELSE {}]
  /\ ctxDone = FALSE
  /\ mainPc = "register"
  /\ producer = [pc |-> "idle", sent |-> 0, pending |-> 0]
  /\ queue = <<>>
  /\ listenPc = "idle"
  /\ recv = [pc |-> "idle", alert |-> 0]
  /\ wg = 0
  /\ sess = [s \in Sessions |-> NoSession]
  /\ ret = NoRet

\* Continuous mode, with up to MaxAlerts alerts and sessions of
\* MaxCallsBound calls.
Init ==
  /\ InitProcess
  /\ mode = "continuous"
  /\ maxCalls = MaxCallsBound

Next ==
  \/ \E r \in Registries, name \in DOMAIN MCPServers, outcome \in {"ok", "initErr"} :
       RegisterServersConfigStep(r, name, FALSE, outcome, FALSE)
  \/ \E ok \in BOOLEAN : MainSetup(ok)
  \/ Cancel
  \/ \E n \in 1..MaxAlerts : ProducerTick(n)
  \/ \E getOk \in BOOLEAN : ProducerSend(getOk)
  \/ ProducerReturn
  \/ RecvReturn
  \/ RecvAlert
  \/ RecvSpawn
  \/ ListenCtxDone
  \/ ListenReturn
  \/ MainWaitReturn
  \/ \E s \in Sessions : SessionClone(s)
  \/ \E s \in Sessions, openErr \in BOOLEAN : SessionNew(s, openErr, FALSE)
  \/ \E s \in Sessions : SessionLoopTop(s)
  \/ \E s \in Sessions : \E resp \in CoreResponses(sess[s].i) : SessionLLMReturn(s, resp)
  \/ \E s \in Sessions, answer \in CoreAnswers : SessionToolReturn(s, answer)

Spec == Init /\ [][Next]_vars

\* One session alone: batch mode, or ProcessSingleAlert under a context
\* its caller may cancel ("session").  max_calls is an int of the
\* configuration that nothing validates: it may be zero or negative.
InitSession ==
  /\ InitProcess
  /\ mode \in {"batch", "session"}
  /\ maxCalls \in -1..MaxCallsBound

NextSession ==
  \/ \E r \in {Base, 1}, name \in DOMAIN MCPServers, newClientErr \in BOOLEAN,
        outcome \in RegisterOutcomes, closeErr \in BOOLEAN :
       RegisterServersConfigStep(r, name, newClientErr, outcome, closeErr)
  \/ \E ok \in BOOLEAN : MainSetup(ok)
  \/ Cancel
  \/ BatchReturn
  \/ SessionClone(1)
  \/ \E openErr \in BOOLEAN, marshalErr \in BOOLEAN : SessionNew(1, openErr, marshalErr)
  \/ SessionLoopTop(1)
  \/ \E resp \in Responses(sess[1].i) : SessionLLMReturn(1, resp)
  \/ \E answer \in Answers : SessionToolReturn(1, answer)

SpecSession == InitSession /\ [][NextSession]_vars

\* One session alone, where the goroutine of Session.Run keeps running and
\* every model invocation and every tool invocation returns (the model call
\* under its three-minute timeout, the tool calls under theirs).  The
\* tool answers are a successful result and a failed call.
LiveAnswers == CoreAnswers \cup {ToolError}

NextSessionLive ==
  \/ \E r \in {Base, 1}, name \in DOMAIN MCPServers, newClientErr \in BOOLEAN,
        outcome \in RegisterOutcomes, closeErr \in BOOLEAN :
       RegisterServersConfigStep(r, name, newClientErr, outcome, closeErr)
  \/ \E ok \in BOOLEAN : MainSetup(ok)
  \/ Cancel
  \/ BatchReturn
  \/ SessionClone(1)
  \/ \E openErr \in BOOLEAN, marshalErr \in BOOLEAN : SessionNew(1, openErr, marshalErr)
  \/ SessionLoopTop(1)
  \/ \E resp \in Responses(sess[1].i) : SessionLLMReturn(1, resp)
  \/ \E answer \in LiveAnswers : SessionToolReturn(1, answer)

SpecSessionLive ==
  /\ InitSession
  /\ [][NextSessionLive]_vars
  /\ WF_vars(SessionLoopTop(1))
  /\ WF_vars(\E resp \in Responses(sess[1].i) : SessionLLMReturn(1, resp))
  /\ WF_vars(\E answer \in LiveAnswers : SessionToolReturn(1, answer))

(***************************************************************************)
(* Shutdown of continuous mode.  Service.Start's GetAlert and its channel  *)
(* send are separate steps here, so that the producer can be seen waiting  *)
(* at the send, and so are the deferred Close of the shared registry and   *)
(* the exit of the process; every goroutine keeps running when it can.     *)
(***************************************************************************)
\* Service.Start after the send of an alert or the skip of one.
ProducerNext(p) ==
  [pc      |-> IF p.pending = 1 THEN "select" ELSE "send",
   sent    |-> p.sent + 1,
   pending |-> p.pending - 1]

\* Service.Start, lines 70-74: GetAlert; on failure the alert is skipped.
ProducerGetAlert(getOk) ==
  /\ Alive
  /\ producer.pc = "send"
  /\ producer' = IF getOk THEN [producer EXCEPT !.pc = "chan"] ELSE ProducerNext(producer)
  /\ UNCHANGED <<heap, conns, regs, regLeft, ctxDone, maxCalls, mode, ret, mainPc, queue,
                 listenPc, recv, wg, sess>>

\* Service.Start, line 80: queryChan <- a, a plain send, possible only
\* while the channel's buffer (capacity 1) has room.
ProducerChanSend ==
  /\ Alive
  /\ producer.pc = "chan"
  /\ Len(queue) < 1
  /\ queue' = Append(queue, producer.sent + 1)
  /\ producer' = ProducerNext(producer)
  /\ UNCHANGED <<heap, conns, regs, regLeft, ctxDone, maxCalls, mode, ret, mainPc,
                 listenPc, recv, wg, sess>>

\* runContinuousMode, line 196 and the deferred call of line 159:
\* service.Wait() returns once both services returned, and
\* mcpClients.Close() closes the shared connections.
MainClose ==
  /\ mainPc = "wait"
  /\ producer.pc = "returned"
  /\ listenPc = "returned"
  /\ conns' = Close(heap, conns, regs[Base], {}).conns
  /\ mainPc' = "closing"
  /\ UNCHANGED <<heap, regs, regLeft, ctxDone, maxCalls, mode, ret, producer, queue,
                 listenPc, recv, wg, sess>>

\* runContinuousMode and runner return after the deferred Close: the
\* process exits, whatever goroutines are left.
MainExit ==
  /\ mainPc = "closing"
  /\ mainPc' = "returned"
  /\ UNCHANGED <<heap, conns, regs, regLeft, ctxDone, maxCalls, mode, ret, producer, queue,
                 listenPc, recv, wg, sess>>

\* Any step of the goroutine running run() for session s.
SessionStep(s) ==
  \/ \E name \in DOMAIN MCPServers, outcome \in {"ok", "initErr"} :
       RegisterServersConfigStep(s, name, FALSE, outcome, FALSE)
  \/ SessionClone(s)
  \/ \E openErr \in BOOLEAN : SessionNew(s, openErr, FALSE)
  \/ SessionLoopTop(s)
  \/ \E resp \in CoreResponses(sess[s].i) : SessionLLMReturn(s, resp)
  \/ \E answer \in CoreAnswers : SessionToolReturn(s, answer)

\* Continuous mode, as in Init.
InitShutdown ==
  /\ InitProcess
  /\ mode = "continuous"
  /\ maxCalls = MaxCallsBound

NextShutdown ==
  \/ \E name \in DOMAIN MCPServers, outcome \in {"ok", "initErr"} :
       RegisterServersConfigStep(Base, name, FALSE, outcome, FALSE)
  \/ \E ok \in BOOLEAN : MainSetup(ok)
  \/ Cancel
  \/ \E n \in 1..MaxAlerts : ProducerTick(n)
  \/ \E getOk \in BOOLEAN : ProducerGetAlert(getOk)
  \/ ProducerChanSend
  \/ ProducerReturn
  \/ RecvReturn
  \/ RecvAlert
  \/ RecvSpawn
  \/ ListenCtxDone
  \/ ListenReturn
  \/ MainClose
  \/ MainExit
  \/ \E s \in Sessions : SessionStep(s)

\* Every goroutine that can take a step eventually takes one: the producer
\* (the ticker aside, which need not fire), Listen's receiver, whose select
\* takes one of its ready cases, Listen, the sessions and the main
\* goroutine.
SpecShutdown ==
  /\ InitShutdown
  /\ [][NextShutdown]_vars
  /\ WF_vars(\E getOk \in BOOLEAN : ProducerGetAlert(getOk))
  /\ WF_vars(ProducerChanSend)
  /\ WF_vars(ProducerReturn)
  /\ WF_vars(RecvReturn \/ RecvAlert)
  /\ WF_vars(RecvSpawn)
  /\ WF_vars(ListenCtxDone)
  /\ WF_vars(ListenReturn)
  /\ WF_vars(MainClose)
  /\ WF_vars(MainExit)
  /\ \A s \in Sessions : WF_vars(SessionStep(s))

(***************************************************************************)
(* The registry's calls together with what they return: New, Clone,        *)
(* RegisterClient and Close on two registries, each call recorded in ret.  *)
(***************************************************************************)
ReturnRegistries == {0, 1}

RetNew(r) ==
  /\ ApiNew(r)
  /\ ret' = [NoRet EXCEPT !.op = "New", !.r = r]

RetClone(r1, r2) ==
  /\ ApiClone(r1, r2)
  /\ ret' = [NoRet EXCEPT !.op = "Clone", !.r = r2]

RetRegisterClient(r, name, outcome, closeErr) ==
  /\ ApiRegisterClient(r, name, outcome, closeErr)
  /\ ret' = [NoRet EXCEPT !.op = "RegisterClient", !.r = r, !.name = name,
                          !.outcome = outcome, !.closeErr = closeErr,
                          !.err = RegisterClient(heap, r, regs[r], Client(r, name), name,
                                                 ServerTools[name], outcome, closeErr).err]

RetClose(r, failing) ==
  /\ ApiClose(r, failing)
  /\ ret' = [NoRet EXCEPT !.op = "Close", !.r = r, !.failing = failing,
                          !.err = Close(heap, conns, regs[r], failing).err]

NextReturns ==
  \/ \E r \in ReturnRegistries : RetNew(r)
  \/ \E r1 \in ReturnRegistries, r2 \in ReturnRegistries : RetClone(r1, r2)
  \/ \E r \in ReturnRegistries, name \in DOMAIN MCPServers,
        outcome \in {"ok", "initErr"}, closeErr \in BOOLEAN :
       RetRegisterClient(r, name, outcome, closeErr)
  \/ \E r \in ReturnRegistries :
       \E failing \in SUBSET {Client(r, SrvA), Client(r, SrvAB)} : RetClose(r, failing)

SpecReturns == InitRegistry /\ [][NextReturns]_vars

(***************************************************************************)
(* CallTool on a registry and on its clone.  The registries are built by   *)
(* New, RegisterClient and Clone from up to MaxBuilt servers.              *)
(***************************************************************************)
\* Servers registered in all before CallTool is used.
MaxBuilt == 2

\* Names CallTool is asked for: registered ones, an original (unprefixed)
\* one, and one no server has.
CallNames ==
  { SprintfName(SrvA, <<"x">>), SprintfName(SrvA, <<"b","_","c">>),
    SprintfName(SrvAB, <<"y">>), <<"x">>, <<"q">> }

\* Arguments CallTool is given (the map json.Unmarshal filled).
CallArgs == { <<>>, <<[key |-> "k", value |-> "1"]>> }

\* The sequences of distinct servers of length n.
Orders(n) ==
  {o \in [1..n -> {SrvA, SrvAB, SrvZ}] : \A i \in 1..n, j \in 1..n : i # j => o[i] # o[j]}

\* st = [heap, regs, conns] after registry r registered the servers of
\* names, in order, each registration going well.
RECURSIVE RegisterAll(_, _, _)
RegisterAll(st, r, names) ==
  IF Len(names) = 0 THEN st
  ELSE LET n == RegisterClient(st.heap, r, st.regs[r], Client(r, names[1]), names[1],
                               ServerTools[names[1]], "ok", FALSE)
       IN  RegisterAll([heap  |-> n.heap,
                        regs  |-> [st.regs EXCEPT ![r] = n.c],
                        conns |-> [st.conns EXCEPT ![Client(r, names[1])] = n.conn]],
                       r, Tail(names))

\* Registry 0 is New() with baseNames registered; registry 1 is its Clone()
\* with cloneNames registered.
Built(baseNames, cloneNames) ==
  LET n  == New(<<>>, 0)
      s0 == RegisterAll([heap  |-> n.heap,
                         regs  |-> [r \in Registries |-> IF r = 0 THEN n.c ELSE NoClients],
                         conns |-> [x \in AllClients |-> NewConn]],
                        0, baseNames)
      c  == Clone(s0.heap, 1, s0.regs[0])
  IN  RegisterAll([s0 EXCEPT !.heap = c.heap, !.regs[1] = c.c], 1, cloneNames)

\* Clients.CallTool(ctx, name, args) on registry r; answer is what the
\* server answers if a request reaches it (a closed connection answers
\* with a failure only).
RetCallTool(r, name, args, answer) ==
  /\ regs[r] # NoClients
  /\ LET l == CallToolLookup(heap[regs[r].toolsClients], name)
     IN  IF ~l.err.isNil
         THEN ret' = [NoRet EXCEPT !.op = "CallTool", !.r = r, !.name = name,
                                   !.args = args, !.err = l.err]
         ELSE /\ conns[l.toolInfo.Client].status = "closed" => ~answer.err.isNil
              /\ ret' = [NoRet EXCEPT !.op = "CallTool", !.r = r, !.name = name,
                                      !.args = args, !.answer = answer,
                                      !.sent = <<CallToolRequest(l.toolInfo, args)>>,
                                      !.text = CallToolResult(name, answer).text,
                                      !.err = CallToolResult(name, answer).err]
  /\ UNCHANGED <<regVars, sysVars>>

InitCallTool ==
  /\ \E nb \in 0..MaxBuilt : \E nc \in 0..(MaxBuilt - nb) :
       \E baseNames \in Orders(nb), cloneNames \in Orders(nc) :
         /\ heap = Built(baseNames, cloneNames).heap
         /\ regs = Built(baseNames, cloneNames).regs
         /\ conns = Built(baseNames, cloneNames).conns
  /\ regLeft = [r \in Registries |-> {}]
  /\ ctxDone = FALSE
  /\ maxCalls = 0
  /\ mode = "api"
  /\ mainPc = "idle"
  /\ producer = [pc |-> "idle", sent |-> 0, pending |-> 0]
  /\ queue = <<>>
  /\ listenPc = "idle"
  /\ recv = [pc |-> "idle", alert |-> 0]
  /\ wg = 0
  /\ sess = [s \in Sessions |-> NoSession]
  /\ ret = NoRet

NextCallTool ==
  \E r \in ReturnRegistries, name \in CallNames, args \in CallArgs, answer \in Answers :
    RetCallTool(r, name, args, answer)

SpecCallTool == InitCallTool /\ [][NextCallTool]_vars

(***************************************************************************)
(* Properties.                                                             *)
(***************************************************************************)
\* The outcomes of a Session.Run that returned.
Terminal == {"COMPLETE", "BUDGET_EXHAUSTED", "CANCELLED", "FAILED"}

\* The completion phrase in upper case, letter by letter.
PhraseUpper == <<"I","N","V","E","S","T","I","G","A","T","I","O","N"," ","C","O","M","P","L","E","T","E">>

\* content holds the completion phrase, each letter in either case.
HasPhraseAnyCase(content) ==
  \E k \in 0..(Len(content) - Len(endSessionPhrase)) :
    \A j \in 1..Len(endSessionPhrase) :
      content[k + j] \in {endSessionPhrase[j], PhraseUpper[j]}

\* None of the tool calls of the last response was sent to a server or
\* appended to the history.
ProposedUntouched(S) ==
  \A k \in 1..Len(S.toolCalls) :
    /\ \A d \in 1..Len(S.dispatched) : S.dispatched[d].ID # S.toolCalls[k].ID
    /\ \A j \in 1..Len(S.messages) :
         S.messages[j].Part.type = "toolCall" => S.messages[j].Part.ID # S.toolCalls[k].ID

\* How many sections named sec the transcript holds.
Sections(S, sec) == Cardinality({t \in 1..Len(S.transcript) : S.transcript[t].sec = sec})

\* Every request sent to a server has its answer in the history, and every
\* tool call of the history and of the transcript has its response there.
DispatchedRecorded(S) ==
  /\ \A d \in 1..Len(S.dispatched) :
       \E j \in 1..Len(S.messages) :
         /\ S.messages[j].Part.type = "toolResponse"
         /\ S.messages[j].Part.ToolCallID = S.dispatched[d].ID
  /\ Cardinality({j \in 1..Len(S.messages) : S.messages[j].Part.type = "toolCall"})
       = Cardinality({j \in 1..Len(S.messages) : S.messages[j].Part.type = "toolResponse"})
  /\ Sections(S, "Tool call") = Sections(S, "Tool response")

\* What a registry shows: its tool list and its name-to-connection map.
View(h, c) == [tools |-> GetTools(h, c), toolsClients |-> h[c.toolsClients]]

\* C1: for maxCalls >= 1, one Session.Run issues at most maxCalls model
\* invocations, and at most one per loop iteration (i + 1 by iteration i).
C1_AtMostMaxCalls ==
  \A s \in Sessions :
    sess[s].maxCalls >= 1 =>
      /\ sess[s].llmCalls <= sess[s].maxCalls
      /\ sess[s].llmCalls <= sess[s].i + 1

\* A session that used its whole budget of several calls and returned.
C1_Witness ==
  /\ sess[1].maxCalls = MaxCallsBound
  /\ sess[1].llmCalls = MaxCallsBound
  /\ sess[1].pc = "done"

\* C2: Listen has returned only in states where every session it started
\* is terminal: none is running, none is about to start.
C2_ListenReturnsAfterSessions ==
  listenPc = "returned" =>
    /\ recv.pc # "add"
    /\ \A s \in Sessions : sess[s].pc \in {"idle", "done"}

\* C3: once the context is cancelled, no alert leaves the queue and no
\* session is started.
C3_NoIntakeAfterCancel ==
  [][ctxDone =>
       /\ Len(queue') >= Len(queue)
       /\ \A s \in Sessions : sess[s].pc = "idle" => sess'[s].pc = "idle"]_vars

\* Session s fails in this step: a model error, an argument parse error, a
\* registration error or a transcript-open error ends it.
FailureStep(s) ==
  /\ sess[s].pc \notin {"idle", "done"}
  /\ sess'[s].pc = "done"
  /\ sess'[s].outcome \in {"FAILED", "NO_SESSION"}

\* C4: the step in which a session fails changes no other session (its
\* record, its registry and what that registry shows, its connections),
\* nor the shared registry and its connections, nor the supervisor: the
\* context, the process, Listen, its receiver, the queue and the producer
\* stay as they are.
C4_FailureIsolated ==
  [][\A s \in Sessions :
       FailureStep(s) =>
         /\ \A t \in Registries \ {s} :
              /\ regs'[t] = regs[t]
              /\ regs[t] # NoClients => View(heap', regs'[t]) = View(heap, regs[t])
              /\ \A x \in AllClients : x.owner = t => conns'[x] = conns[x]
         /\ \A t \in Sessions \ {s} : sess'[t] = sess[t]
         /\ ctxDone' = ctxDone
         /\ mainPc' = mainPc
         /\ listenPc' = listenPc
         /\ recv' = recv
         /\ queue' = queue
         /\ producer' = producer]_vars

\* One session failed on a model error while the other is running and
\* the supervisor is still receiving.
C4_Witness ==
  /\ sess[1].outcome = "FAILED"
  /\ sess[2].pc = "llm"
  /\ recv.pc = "select"
  /\ ~ctxDone

\* C5: a last-call response that proposes tool calls ends the session in
\* BUDGET_EXHAUSTED, none of the calls sent to a server or appended.
C5_LastCallToolsExhaust ==
  \A s \in Sessions :
    sess[s].lastCall /\ sess[s].toolCalls # <<>> =>
      /\ sess[s].pc = "done"
      /\ sess[s].outcome = "BUDGET_EXHAUSTED"
      /\ ProposedUntouched(sess[s])

\* C5, amended: a last-call response that proposes tool calls ends the
\* session, none of the calls sent to a server or appended; the outcome is
\* COMPLETE if the content holds the completion phrase, BUDGET_EXHAUSTED
\* otherwise.
C5_LastCallToolsEnd ==
  \A s \in Sessions :
    sess[s].lastCall /\ sess[s].toolCalls # <<>> =>
      /\ sess[s].pc = "done"
      /\ sess[s].outcome = IF HasPhraseAnyCase(sess[s].llmResponse.Content)
                           THEN "COMPLETE" ELSE "BUDGET_EXHAUSTED"
      /\ ProposedUntouched(sess[s])

\* The last call of several proposed a tool call without the phrase.
C5_Witness ==
  /\ sess[1].lastCall
  /\ sess[1].i >= 1
  /\ sess[1].toolCalls # <<>>
  /\ sess[1].outcome = "BUDGET_EXHAUSTED"
  /\ Len(sess[1].dispatched) >= 1

\* C6: a session at the top of its loop with budget left and the context
\* cancelled ends there: CANCELLED, no model call issued, no error
\* recorded, and the answer of every request sent before is in the history
\* and in the transcript.  A cancelled session takes no further step.
C6_CancelBetweenIterations ==
  [][\A s \in Sessions :
       /\ ( /\ sess[s].pc = "loop"
            /\ sess[s].i < sess[s].maxCalls
            /\ ctxDone
            /\ sess'[s] # sess[s] )
          => /\ sess'[s].pc = "done"
             /\ sess'[s].outcome = "CANCELLED"
             /\ sess'[s].llmCalls = sess[s].llmCalls
             /\ sess'[s].finalErr.isNil
             /\ Sections(sess'[s], "Error") = 0
             /\ sess'[s].messages = sess[s].messages
             /\ DispatchedRecorded(sess'[s])
       /\ sess[s].outcome = "CANCELLED" => sess'[s] = sess[s]]_vars

\* A session cancelled after an iteration that sent a request.
C6_Witness ==
  /\ sess[1].outcome = "CANCELLED"
  /\ sess[1].i >= 1
  /\ Len(sess[1].dispatched) >= 1
  /\ sess[1].llmCalls < sess[1].maxCalls

\* C7: when the content of the model's response holds the completion
\* phrase in any letter case, the session has ended in COMPLETE in that
\* iteration: no tool call of the response sent or appended, and no model
\* invocation after that of the iteration.
C7_PhraseCompletes ==
  \A s \in Sessions :
    HasPhraseAnyCase(sess[s].llmResponse.Content) =>
      /\ sess[s].pc = "done"
      /\ sess[s].outcome = "COMPLETE"
      /\ ProposedUntouched(sess[s])
      /\ sess[s].llmCalls = sess[s].i + 1

\* The phrase came in upper case, with a tool call, before the last call.
C7_Witness ==
  /\ sess[1].llmResponse.Content = PhraseUpper
  /\ sess[1].toolCalls # <<>>
  /\ ~sess[1].lastCall
  /\ sess[1].outcome = "COMPLETE"

\* C8: when a session is in a terminal state, every connection registered
\* into its clone is closed.
C8_SessionConnsClosed ==
  \A s \in Sessions :
    sess[s].pc = "done" /\ sess[s].outcome \in Terminal =>
      \A k \in 1..Len(CloseTargets(heap, regs[s])) :
        conns[CloseTargets(heap, regs[s])[k]].status = "closed"

\* C9: closing a session's clone would leave every shared connection as
\* it is (the clone owns none of them), and a shared connection stops
\* being open only in a step that is the shared registry's Close.
C9_SharedClosedOnlyByBase ==
  [][/\ \A s \in Sessions :
          regs[s] # NoClients =>
            \A x \in AllClients :
              x.owner = Base => Close(heap, conns, regs[s], {}).conns[x] = conns[x]
     /\ \A x \in AllClients :
          x.owner = Base /\ conns[x].status = "open" /\ conns'[x].status # "open"
            => conns' = Close(heap, conns, regs[Base], {}).conns]_vars

\* A session ended with a connection of its own registered, and the shared
\* connection is still open.
C9_Witness ==
  /\ sess[1].pc = "done"
  /\ sess[1].outcome \in Terminal
  /\ Len(CloseTargets(heap, regs[1])) > 0
  /\ conns[Client(Base, SrvA)].status = "open"

\* C10: a step that leaves a registry's own value alone leaves what it
\* shows alone: registering into a clone changes neither its source's tool
\* list and map nor another clone's, and registering into the source
\* changes no clone's.
C10_CloneIndependent ==
  [][\A q \in ApiRegistries :
       regs[q] # NoClients /\ regs'[q] = regs[q]
         => View(heap', regs'[q]) = View(heap, regs[q])]_vars

\* Two registries, one showing the other's tools and more: a registration
\* went into one of them after the clone.
C10_Witness ==
  \E r1 \in ApiRegistries, r2 \in ApiRegistries :
    /\ regs[r1] # NoClients
    /\ regs[r2] # NoClients
    /\ Len(GetTools(heap, regs[r1])) > 0
    /\ Len(GetTools(heap, regs[r2])) > Len(GetTools(heap, regs[r1]))
    /\ SubSeq(GetTools(heap, regs[r2]), 1, Len(GetTools(heap, regs[r1])))
         = GetTools(heap, regs[r1])

\* The tools registry r lists and the names of its map.
ToolNames(h, c) == {GetTools(h, c)[k].Name : k \in 1..Len(GetTools(h, c))}

\* C11: a registration into a registry leaves every entry the map already
\* had as it was (a name stays with the connection registered first, with
\* its original name), leaves the listed descriptors in place and lists no
\* name twice, and still adds every tool of the new provider whose
\* qualified name was free, mapped to the new connection.
C11_FirstRegistrationWins ==
  [][ret'.op = "RegisterClient" =>
       LET r    == ret'.r
           name == ret'.name
           old  == heap[regs[r].toolsClients]
           new  == heap'[regs'[r].toolsClients]
           was  == GetTools(heap, regs[r])
           now  == GetTools(heap', regs'[r])
       IN  /\ \A q \in DOMAIN old : q \in DOMAIN new /\ new[q] = old[q]
           /\ Len(was) <= Len(now) /\ SubSeq(now, 1, Len(was)) = was
           /\ \A i \in 1..Len(now), j \in 1..Len(now) : now[i].Name = now[j].Name => i = j
           /\ ToolNames(heap', regs'[r]) = DOMAIN new
           /\ ret'.err.isNil =>
                \A k \in 1..Len(ServerTools[name]) :
                  LET t == ServerTools[name][k]
                      q == SprintfName(name, t.Name)
                  IN  q \notin DOMAIN old =>
                        /\ q \in DOMAIN new
                        /\ new[q] = [Client |-> Client(r, name), ClientName |-> name,
                                     OriginalToolName |-> t.Name]
                        /\ \E i \in Len(was) + 1 .. Len(now) :
                             now[i] = [Name |-> q, Description |-> t.Description]
  ]_vars

\* SrvAB was registered after SrvA into one registry: "a_b_c" stays with
\* SrvA's connection and SrvAB's other tool is there.
C11_Witness ==
  /\ ret.op = "RegisterClient" /\ ret.name = SrvAB /\ ret.err.isNil
  /\ LET m == heap[regs[ret.r].toolsClients]
     IN  /\ SprintfName(SrvAB, <<"c">>) \in DOMAIN m
         /\ m[SprintfName(SrvAB, <<"c">>)].Client.name = SrvA
         /\ SprintfName(SrvAB, <<"y">>) \in DOMAIN m
         /\ m[SprintfName(SrvAB, <<"y">>)].Client = Client(ret.r, SrvAB)

\* C12: the tools of two providers registered into one registry under
\* different provider names always get different qualified names.
C12_DistinctQualifiedNames ==
  \A r \in Registries :
    regs[r] # NoClients =>
      LET owned == CloseTargets(heap, regs[r])
      IN  \A i \in 1..Len(owned), j \in 1..Len(owned) :
            owned[i].name # owned[j].name =>
              \A k \in 1..Len(ServerTools[owned[i].name]),
                 l \in 1..Len(ServerTools[owned[j].name]) :
                SprintfName(owned[i].name, ServerTools[owned[i].name][k].Name)
                  # SprintfName(owned[j].name, ServerTools[owned[j].name][l].Name)

\* The toolsClients map of the registry the recorded call was made on.
RetMap == heap[regs[ret.r].toolsClients]

\* C13: CallTool with a name of the registry's namespace sends exactly one
\* request; it goes to the connection the name is registered for, which is
\* a connection of this registry or of the one it was cloned from and whose
\* server lists the tool; it carries the tool's original name (the
\* qualified name is the server name, "_" and that name) and the arguments
\* as they were given.
C13_CallForwarded ==
  ret.op = "CallTool" /\ ret.name \in DOMAIN RetMap =>
    /\ Len(ret.sent) = 1
    /\ LET q == ret.sent[1]
       IN  /\ q.Client = RetMap[ret.name].Client
           /\ q.Client.owner \in {0, ret.r}
           /\ conns[q.Client].status = "open"
           /\ \E k \in 1..Len(ServerTools[q.Client.name]) :
                ServerTools[q.Client.name][k].Name = q.Name
           /\ SprintfName(q.Client.name, q.Name) = ret.name
           /\ q.Arguments = ret.args

\* The clone was asked for "a_b_c" with an argument, and the request went
\* to the base registry's connection to SrvA as "b_c".
C13_Witness ==
  /\ ret.op = "CallTool" /\ ret.r = 1
  /\ ret.name = SprintfName(SrvA, <<"b","_","c">>)
  /\ Len(ret.args) = 1
  /\ Len(ret.sent) = 1
  /\ ret.sent[1].Client = Client(0, SrvA)
  /\ ret.sent[1].Name = <<"b","_","c">>
  /\ Client(1, SrvAB) \in {CloseTargets(heap, regs[1])[k] :
                             k \in 1..Len(CloseTargets(heap, regs[1]))}

\* C14: CallTool with a name that is not in the registry's namespace
\* returns the error "no client found for tool <name>" and no text, sends
\* no request to any connection, and changes neither the registry nor any
\* connection.
C14_AbsentName ==
  [][ret'.op = "CallTool" /\ ret'.name \notin DOMAIN heap[regs[ret'.r].toolsClients] =>
       /\ ret'.err = Err(ErrNoClient \o ret'.name)
       /\ ret'.text = <<>>
       /\ ret'.sent = <<>>
       /\ UNCHANGED <<heap, regs, conns>>
  ]_vars

\* A registry that has SrvA's tool "x" as "a_x" was asked for "x".
C14_Witness ==
  /\ ret.op = "CallTool" /\ ret.name = <<"x">>
  /\ SprintfName(SrvA, <<"x">>) \in DOMAIN RetMap
  /\ ~ret.err.isNil
  /\ ret.sent = <<>>

\* C15: a CallTool that reached a connection returns an error value only
\* when the connection reported a transport or protocol failure; when the
\* answer has the IsError flag, it returns the answer's text and no error.
C15_ToolErrorIsText ==
  ret.op = "CallTool" /\ Len(ret.sent) = 1 =>
    /\ ~ret.err.isNil => ~ret.answer.err.isNil
    /\ ret.answer.err.isNil /\ ret.answer.IsError =>
         ret.err.isNil /\ ret.text = ResultText(ret.answer.Content)

\* C16: a registration whose server lists no tools returns no error, adds
\* nothing to the registry's namespace, has closed the connection once and
\* has not put it among the connections the registry owns; no later
\* Close closes it again.
C16_EmptyListingSucceeds ==
  /\ ret.op = "RegisterClient" /\ ret.outcome = "ok" /\ Len(ServerTools[ret.name]) = 0 =>
       /\ ret.err.isNil
       /\ \A q \in DOMAIN RetMap : RetMap[q].Client # Client(ret.r, ret.name)
       /\ conns[Client(ret.r, ret.name)] = [status |-> "closed", closes |-> 1]
       /\ \A k \in 1..Len(CloseTargets(heap, regs[ret.r])) :
            CloseTargets(heap, regs[ret.r])[k] # Client(ret.r, ret.name)
  /\ \A r \in Registries : conns[Client(r, SrvZ)].closes <= 1

\* Registry r has a connection that was started but whose handshake or
\* tool listing failed: it is open and the registry does not own it.
FailedIn(r) ==
  \E name \in DOMAIN MCPServers :
    /\ conns[Client(r, name)].status = "open"
    /\ \A k \in 1..Len(CloseTargets(heap, regs[r])) :
         CloseTargets(heap, regs[r])[k] # Client(r, name)

\* The error RegisterClient returns for a failed handshake or listing.
FailedErrs(r) ==
  {Errorf(p, name, ErrCause) : p \in {ErrInit, ErrList},
                               name \in {n \in DOMAIN MCPServers :
                                           conns[Client(r, n)].status = "open"}}

C18_CloseClosesEachOnce ==
  [][ret'.op = "Close" =>
       LET targets == CloseTargets(heap, regs[ret'.r])
           owned   == {targets[k] : k \in 1..Len(targets)}
           bad     == {k \in 1..Len(targets) : targets[k] \in ret'.failing}
           msg     == ret'.err.msg
       IN  /\ Cardinality(owned) = Len(targets)
           /\ \A x \in AllClients :
                conns'[x] = IF x \in owned
                            THEN [status |-> "closed", closes |-> conns[x].closes + 1]
                            ELSE conns[x]
           /\ ret'.err.isNil <=> bad = {}
           /\ bad # {} =>
                /\ Cardinality({i \in 1..Len(msg) : msg[i] = "\n"}) + 1 = Cardinality(bad)
                /\ \A k \in bad :
                     Contains(msg, Errorf(ErrClose, <<"%","!","s","(","i","n","t","=">>
                                                    \o <<Digit(k - 1), ")">>, ErrCause).msg)
  ]_vars

\* Close of a registry owning two connections, where closing the first
\* failed: the second is closed as well and the failure is returned.
C18_Witness ==
  /\ ret.op = "Close"
  /\ LET targets == CloseTargets(heap, regs[ret.r])
     IN  /\ Len(targets) = 2
         /\ ret.failing = {targets[1]}
         /\ conns[targets[2]].status = "closed"
  /\ ~ret.err.isNil

\* C19: a failure to close a connection never ends a registration batch or
\* a session: no run ends without a session because closing the
\* connection of a server (SrvZ, closed while it is registered) failed,
\* and the process never fails for it.
C19_CloseFailureNotFatal ==
  /\ \A s \in Sessions :
       conns[Client(s, SrvZ)].status = "closed" /\ sess[s].outcome = "NO_SESSION" =>
         sess[s].runErr # Errorf(ErrClose, SrvZ, ErrCause)
  /\ conns[Client(Base, SrvZ)].status = "closed" => mainPc # "failed"

\* The sessions whose run() has started and not returned.
Running == {s \in Sessions : sess[s].pc \notin {"idle", "done"}}

TranscriptEnded(S) ==
  /\ S.logFile = "closed"
  /\ S.logCloses = 1
  /\ Len(S.transcript) > 0
  /\ S.transcript[Len(S.transcript)].sec = "Session end"

\* C21: ProcessSingleAlert handles the one alert it was given with one
\* session and no other, and it returns only when that session's run is
\* over: in a terminal state with its transcript ended and closed, or,
\* when the registration or session.New failed, with that error and no
\* session at all.
C21_BatchSynchronous ==
  /\ [](/\ \A s \in Sessions \ {1} : sess[s] = NoSession
        /\ sess[1].pc # "idle" => sess[1].alert = 1 /\ mainPc \in {"session", "returned"})
  /\ [][mainPc = "session" /\ mainPc' # "session" =>
          /\ sess[1].pc = "done"
          /\ sess'[1] = sess[1]
          /\ \/ sess[1].outcome \in Terminal /\ TranscriptEnded(sess[1])
             \/ /\ sess[1].outcome = "NO_SESSION"
                /\ ~sess[1].runErr.isNil
                /\ sess[1].llmCalls = 0
                /\ sess[1].transcript = <<>>
     ]_vars

\* ProcessSingleAlert returned after a session that called a tool and
\* completed in its second iteration.
C21_Witness ==
  /\ mainPc = "returned"
  /\ sess[1].outcome = "COMPLETE"
  /\ sess[1].llmCalls = 2
  /\ Len(sess[1].dispatched) > 0
  /\ TranscriptEnded(sess[1])

\* Session s has a request in flight.
Calling(s) == sess[s].pc = "call"

PartsOf(m, type) == {j \in 1..Len(m) : m[j].Part.type = type}

\* C23: at the top of the loop (and so in the history every model call is
\* given) each tool-call message is directly followed by a tool-result
\* message with its id and name, that is the only tool-result message with
\* that id, and each tool-result message directly follows its tool call.
C23_CallsHaveResults ==
  \A s \in Sessions :
    sess[s].pc \in {"loop", "llm"} =>
      LET m == sess[s].messages
      IN  /\ \A j \in PartsOf(m, "toolCall") :
                /\ j < Len(m)
                /\ m[j + 1].Role = "tool"
                /\ m[j + 1].Part.type = "toolResponse"
                /\ m[j + 1].Part.ToolCallID = m[j].Part.ID
                /\ m[j + 1].Part.Name = m[j].Part.Name
                /\ {k \in PartsOf(m, "toolResponse") : m[k].Part.ToolCallID = m[j].Part.ID}
                     = {j + 1}
          /\ \A k \in PartsOf(m, "toolResponse") :
                k > 1 /\ m[k - 1].Part.type = "toolCall"

\* The second iteration begins with two tool calls in the history, one of
\* which failed.
C23_Witness ==
  /\ sess[1].pc = "loop"
  /\ sess[1].i = 1
  /\ Cardinality(PartsOf(sess[1].messages, "toolCall")) = 2
  /\ \E k \in PartsOf(sess[1].messages, "toolResponse") :
       SubSeq(sess[1].messages[k].Part.Content, 1, 6) = <<"E","r","r","o","r",":">>

\* The content of the tool message for a call that failed with error e:
\* "Error: " and e's text, white space trimmed at both ends or left.
ErrorContent(e, trimmed) ==
  IF trimmed THEN TrimSpace(ErrPrefix \o e.msg) ELSE ErrPrefix \o e.msg

\* The step in which CallTool returns a failure to session s: the run does
\* not end for it; the tool message with the call's id and the error
\* content is appended; the next tool call of the iteration is appended
\* after it, or, if it was the last one, the next iteration begins.
ToolFailureGoesOn(s, trimmed) ==
  \A answer \in Answers :
    LET S        == sess[s]
        toolCall == S.toolCalls[S.k]
        r        == CallToolResult(toolCall.FunctionCall.Name, answer)
        j        == Len(S.messages) + 1
        m        == sess'[s].messages
    IN  /\ Calling(s)
        /\ ~r.err.isNil
        /\ sess'[s] = AfterTool(S, heap[regs[s].toolsClients], answer)
        => /\ Len(m) >= j
           /\ m[j] = [Role |-> "tool",
                      Part |-> [type |-> "toolResponse", ToolCallID |-> toolCall.ID,
                                Name |-> toolCall.FunctionCall.Name,
                                Content |-> ErrorContent(r.err, trimmed)]]
           /\ sess'[s].finalErr # r.err
           /\ sess'[s].outcome = "FAILED" =>
                sess'[s].finalErr = Err(ErrUnmarshal \o ErrJSON.msg)
           /\ IF S.k < Len(S.toolCalls)
              THEN /\ Len(m) > j
                   /\ m[j + 1].Part.type = "toolCall"
                   /\ m[j + 1].Part.ID = S.toolCalls[S.k + 1].ID
              ELSE /\ sess'[s].pc = "loop"
                   /\ sess'[s].i = S.i + 1

\* C24 as written: the tool message of a failed call holds "Error: "
\* followed by the failure text as it is.
C24_ErrorTextAsIs ==
  [][\A s \in Sessions : ToolFailureGoesOn(s, FALSE)]_vars

\* C24: a failed CallTool does not end the session; its tool message holds
\* "Error: " followed by the failure text with white space trimmed at both
\* ends, the remaining tool calls of the iteration follow, and then the
\* next iteration.
C24_ToolFailureNotFatal ==
  [][\A s \in Sessions : ToolFailureGoesOn(s, TRUE)]_vars

\* A call failed with a text ending in a line break; its tool message holds
\* the trimmed text and the session went on to its next iteration.
C24_Witness ==
  /\ sess[1].pc = "llm"
  /\ sess[1].i = 1
  /\ \E k \in PartsOf(sess[1].messages, "toolResponse") :
       sess[1].messages[k].Part.Content = ErrPrefix \o <<"n","o">>
  /\ \E t \in 1..Len(sess[1].transcript) :
       /\ sess[1].transcript[t].sec = "Tool response"
       /\ sess[1].transcript[t].text[2] = ErrPrefix \o <<"n","o","\n">>

\* The tool call's arguments do not parse.
BadArguments(toolCall) == ~Unmarshal(toolCall.FunctionCall.Arguments).err.isNil

\* The ids of the requests the session sent to servers.
DispatchedIDs(S) == {S.dispatched[d].ID : d \in 1..Len(S.dispatched)}

\* The run ended on arguments that did not parse.
ParseFailed(S) ==
  S.pc = "done" /\ S.finalErr = Err(ErrUnmarshal \o ErrJSON.msg)

\* C25: a tool call whose arguments do not parse ends the session FAILED;
\* neither that call nor a later one of the iteration is dispatched (a
\* later one is not even added to the history), no model invocation
\* follows, and the error is in the transcript before its last line.
C25_ParseFailureEndsSession ==
  /\ [](\A s \in Sessions :
          LET S == sess[s]
              n == Len(S.transcript)
              h == Len(S.messages)
          IN  /\ (\E j \in PartsOf(S.messages, "toolCall") :
                    ~Unmarshal(S.messages[j].Part.Arguments).err.isNil)
                 => ParseFailed(S)
              /\ ParseFailed(S) =>
                   /\ S.outcome = "FAILED"
                   /\ \E b \in 1..Len(S.toolCalls) :
                        /\ BadArguments(S.toolCalls[b])
                        /\ \A a \in 1..(b - 1) : ~BadArguments(S.toolCalls[a])
                        /\ S.messages[h].Part.type = "toolCall"
                        /\ S.messages[h].Part.ID = S.toolCalls[b].ID
                        /\ \A c \in b..Len(S.toolCalls) :
                             S.toolCalls[c].ID \notin DispatchedIDs(S)
                        /\ \A c \in (b + 1)..Len(S.toolCalls), j \in PartsOf(S.messages, "toolCall") :
                             S.messages[j].Part.ID # S.toolCalls[c].ID
                   /\ n >= 2
                   /\ S.transcript[n - 1] = [sec |-> "Error", text |-> ErrUnmarshal \o ErrJSON.msg]
                   /\ S.transcript[n].sec = "Session end"
                   /\ S.logFile = "closed")
  /\ [][\A s \in Sessions : ParseFailed(sess[s]) => sess'[s] = sess[s]]_vars

\* The second of three proposed tool calls did not parse, after the first
\* had been dispatched and answered.
C25_Witness ==
  /\ ParseFailed(sess[1])
  /\ Len(sess[1].toolCalls) = 3
  /\ Len(sess[1].dispatched) = 1
  /\ sess[1].llmCalls = 1
  /\ mainPc = "returned"

\* The run ended on a model invocation that failed.
LLMFailed(S) ==
  S.pc = "done" /\ S.finalErr = Err(ErrCallLLM \o ErrCause.msg)

\* C26: a model invocation that fails (a timeout is one of its failures)
\* ends the session FAILED in that very step: the history and the
\* dispatched requests are as they were, no model invocation follows, and
\* the error is written to the transcript before it is closed.
C26_ModelFailureEndsSession ==
  /\ [](\A s \in Sessions :
          LET S == sess[s]
              n == Len(S.transcript)
          IN  LLMFailed(S) =>
                /\ S.outcome = "FAILED"
                /\ n >= 2
                /\ S.transcript[n - 1] = [sec |-> "Error", text |-> ErrCallLLM \o ErrCause.msg]
                /\ S.transcript[n].sec = "Session end"
                /\ S.logFile = "closed"
                /\ S.logCloses = 1)
  /\ [][\A s \in Sessions :
          /\ sess[s].pc = "llm" /\ sess'[s] # sess[s] =>
               /\ sess'[s] = AfterLLM(sess[s], heap[regs[s].toolsClients], LLMError)
                  => LLMFailed(sess'[s])
               /\ LLMFailed(sess'[s]) =>
                    /\ sess'[s].messages = sess[s].messages
                    /\ sess'[s].dispatched = sess[s].dispatched
                    /\ sess'[s].llmCalls = sess[s].llmCalls
          /\ LLMFailed(sess[s]) => sess'[s] = sess[s]]_vars

\* The second model invocation failed, after a tool call had been
\* dispatched and answered in the first iteration.
C26_Witness ==
  /\ LLMFailed(sess[1])
  /\ sess[1].llmCalls = 2
  /\ Len(sess[1].dispatched) = 1
  /\ sess[1].logFile = "closed"

\* p is a prefix of q.
IsPrefix(p, q) == Len(p) <= Len(q) /\ SubSeq(q, 1, Len(p)) = p

\* The session is inside Session.Run's loop.
InLoop(S) == S.pc \in {"loop", "llm", "call"}

\* C27: the history begins with the human message holding the alert and
\* the system message holding the rendered prompt; every step leaves the
\* history it found as a prefix of the new one, so each model call is given
\* an extension of what the call before it was given.
C27_HistoryAppendOnly ==
  /\ [](\A s \in Sessions :
          LET S == sess[s]
          IN  /\ InLoop(S) => Len(S.messages) >= 2
              /\ S.pc # "idle" /\ Len(S.messages) >= 1 =>
                   /\ Len(S.messages) >= 2
                   /\ S.messages[1] = [Role |-> "human", Part |-> TextPart(Marshal(S.alert))]
                   /\ S.messages[2] = [Role |-> "system", Part |-> TextPart(systemPrompt)])
  /\ [][\A s \in Sessions :
          /\ IsPrefix(sess[s].messages, sess'[s].messages)
          /\ InLoop(sess[s]) => sess'[s].alert = sess[s].alert]_vars

\* A second model call is pending on a history that grew by a response, a
\* tool call and its result since the first.
C27_Witness ==
  /\ sess[1].pc = "llm"
  /\ sess[1].llmCalls = 2
  /\ Len(sess[1].messages) >= 5
  /\ sess[1].messages[3].Role = "ai"
  /\ PartsOf(sess[1].messages, "toolResponse") # {}

\* C28: whenever a model call is about to be made or the session has
\* ended, every message added to the history after the first two has a
\* transcript section holding it (a response, an instruction or motivation
\* message, a tool call, a tool result), and a session ended by a model
\* response has one "LLM response" section per model call.
C28_EveryStepInTranscript ==
  \A s \in Sessions :
    LET S == sess[s]
    IN  S.pc \in {"llm", "done"} /\ S.outcome \in Terminal \cup {"none"} =>
          /\ \A j \in 3..Len(S.messages) :
               LET part == S.messages[j].Part
               IN  \E t \in 1..Len(S.transcript) :
                     CASE part.type = "text" ->
                            S.transcript[t].text = part.Text
                       [] part.type = "toolCall" ->
                            /\ S.transcript[t].sec = "Tool call"
                            /\ S.transcript[t].text = <<part.Name, part.Arguments>>
                       [] part.type = "toolResponse" ->
                            /\ S.transcript[t].sec = "Tool response"
                            /\ S.transcript[t].text[1] = part.Name
                            /\ TrimSpace(S.transcript[t].text[2]) = part.Content
          /\ S.pc = "done" /\ S.outcome \in {"COMPLETE", "BUDGET_EXHAUSTED"}
               /\ S.llmResponse # NoResponse =>
               Sections(S, "LLM response") = S.llmCalls

\* What holds of C28: the same for every message but the instruction of the
\* last call, and one "LLM response" section per model response that did
\* not end the session.
TranscriptButLastCall ==
  \A s \in Sessions :
    LET S == sess[s]
    IN  S.pc \in {"llm", "done"} /\ S.outcome \in Terminal \cup {"none"} =>
          /\ \A j \in 3..Len(S.messages) :
               LET part == S.messages[j].Part
               IN  part = TextPart(concludeText) \/
                   \E t \in 1..Len(S.transcript) :
                     CASE part.type = "text" ->
                            S.transcript[t].text = part.Text
                       [] part.type = "toolCall" ->
                            /\ S.transcript[t].sec = "Tool call"
                            /\ S.transcript[t].text = <<part.Name, part.Arguments>>
                       [] part.type = "toolResponse" ->
                            /\ S.transcript[t].sec = "Tool response"
                            /\ S.transcript[t].text[1] = part.Name
                            /\ TrimSpace(S.transcript[t].text[2]) = part.Content
          /\ S.pc = "done" /\ S.outcome \in {"COMPLETE", "BUDGET_EXHAUSTED"}
               /\ S.llmResponse # NoResponse =>
               Sections(S, "LLM response") = S.llmCalls - 1

\* C29: however Session.Run returns (COMPLETE, BUDGET_EXHAUSTED, CANCELLED
\* or FAILED, the alert that cannot be serialized included), the "Session
\* end" line is the last section of the transcript, the file has been
\* closed once, after that line was written, and the transcript of a
\* closed file never changes nor is the file closed again.
C29_SessionEndLastThenClosed ==
  /\ [](\A s \in Sessions :
          LET S == sess[s]
          IN  /\ S.outcome \in Terminal <=> S.logFile = "closed"
              /\ S.outcome \in Terminal =>
                   /\ S.pc = "done"
                   /\ TranscriptEnded(S)
                   /\ Sections(S, "Session end") = 1
              /\ S.logCloses <= 1)
  /\ [][\A s \in Sessions :
          sess[s].logFile = "closed" =>
            /\ sess'[s].transcript = sess[s].transcript
            /\ sess'[s].logFile = "closed"
            /\ sess'[s].logCloses = sess[s].logCloses]_vars

\* Run returned because the alert could not be serialized: the transcript
\* holds the error and the "Session end" line, and the file is closed.
C29_Witness ==
  /\ sess[1].outcome = "FAILED"
  /\ sess[1].finalErr = Err(ErrMarshal \o ErrJSON.msg)
  /\ sess[1].messages = <<>>
  /\ Len(sess[1].transcript) = 2
  /\ TranscriptEnded(sess[1])

\* Each way Session.Run returns.
ExitComplete == sess[1].outcome = "COMPLETE" /\ TranscriptEnded(sess[1])
ExitBudget == sess[1].outcome = "BUDGET_EXHAUSTED" /\ TranscriptEnded(sess[1])
ExitCancelled == sess[1].outcome = "CANCELLED" /\ TranscriptEnded(sess[1])
ExitFailed == sess[1].outcome = "FAILED" /\ sess[1].llmCalls > 0 /\ TranscriptEnded(sess[1])

\* The iterations the loop of Session.Run may make: maxCalls, or none when
\* maxCalls is negative.
Budget(S) == IF S.maxCalls < 0 THEN 0 ELSE S.maxCalls

\* C30: a session whose Run has started reaches a terminal state, and at
\* no time has it begun more than maxCalls iterations or made more than
\* maxCalls model calls (none when maxCalls is negative).
C30_SessionTerminates ==
  /\ \A s \in {1} : InLoop(sess[s]) ~> (sess[s].pc = "done" /\ sess[s].outcome \in Terminal)
  /\ [](\A s \in {1} :
          /\ sess[s].i <= Budget(sess[s])
          /\ sess[s].llmCalls <= Budget(sess[s])
          /\ InLoop(sess[s]) => sess[s].llmCalls \in {sess[s].i, sess[s].i + 1})

\* A session ended in its last iteration, after tool calls in the ones
\* before.
C30_Witness ==
  /\ sess[1].outcome \in Terminal
  /\ sess[1].maxCalls = MaxCallsBound
  /\ sess[1].llmCalls = MaxCallsBound
  /\ sess[1].lastCall
  /\ sess[1].dispatched # <<>>

\* The producer waits at its channel send with the buffer full and nobody
\* left to receive.
ProducerStuck ==
  /\ producer.pc = "chan"
  /\ Len(queue) = 1
  /\ recv.pc = "returned"

\* C31: once cancellation is signalled while the services run, the
\* producer and Listen return and runContinuousMode returns.
C31_ShutdownCompletes ==
  (ctxDone /\ mainPc = "wait") ~>
    (producer.pc = "returned" /\ listenPc = "returned" /\ mainPc = "returned")

\* What does hold of C31: once cancellation is signalled, Listen returns
\* (its receiver and every session it waits for end), and so does the
\* producer unless it is left at its channel send.
ListenReturnsAfterCancel ==
  (ctxDone /\ mainPc = "wait") ~>
    (listenPc = "returned" /\ (producer.pc = "returned" \/ ProducerStuck))

\* A shared connection that the shared registry's Close has closed.
SharedClosed(x) == x.owner = Base /\ conns[x].status = "closed"

\* The session can still reach a CallTool: it has a model call or a tool
\* call pending, or it is yet to pass the cancellation check of its loop
\* with the context not cancelled.
CanCallTool(S) ==
  \/ S.pc \in {"llm", "call"}
  \/ S.pc \in {"clone", "register", "new", "loop"} /\ ~ctxDone

\* C32: while a shared connection is closed no session can still reach a
\* CallTool, and no step sends a request on any connection; so the shared
\* registry's Close runs only when no session can invoke a tool.
C32_NoDispatchAfterSharedClose ==
  /\ [](\A s \in Sessions, x \in AllClients :
          SharedClosed(x) => ~CanCallTool(sess[s]))
  /\ [][\A s \in Sessions :
          /\ (\E x \in AllClients : SharedClosed(x))
               => sess'[s].dispatched = sess[s].dispatched
          /\ Len(sess'[s].dispatched) > Len(sess[s].dispatched)
               => conns'[InFlight(sess'[s]).Client].status = "open"]_vars

\* The shared connections are closed and the process has not exited yet,
\* while a session started after Listen returned is on its way to its
\* loop.
C32_Witness ==
  /\ mainPc = "closing"
  /\ SharedClosed(Client(Base, SrvA))
  /\ \E s \in Sessions : sess[s].pc \in {"clone", "register", "new", "loop"}
  /\ \E s \in Sessions : sess[s].dispatched # <<>>

\* The tool calls of the first n choices, choice after choice.
RECURSIVE CallsOfChoices(_, _)
CallsOfChoices(choices, n) ==
  IF n = 0 THEN <<>> ELSE CallsOfChoices(choices, n - 1) \o choices[n].ToolCalls

\* Message j of the history is the tool-call message of toolCall.
IsCallOf(S, j, toolCall) ==
  /\ j \in 1..Len(S.messages)
  /\ S.messages[j].Part.type = "toolCall"
  /\ S.messages[j].Part.ID = toolCall.ID

\* Message j of the history is the tool-result message of toolCall.
IsResultOf(S, j, toolCall) ==
  /\ j \in 1..Len(S.messages)
  /\ S.messages[j].Part.type = "toolResponse"
  /\ S.messages[j].Part.ToolCallID = toolCall.ID

\* C33: the tool calls of an iteration are those of all choices in choice
\* order.  While the k-th of them is with its server, the history ends
\* with call 1, result 1, ..., call k, the request sent last is the k-th
\* call's, and no later call is in the history; when the iteration is
\* over, the history ends with call 1, result 1, ..., call n, result n.
C33_ToolCallsInOrder ==
  /\ [](\A s \in Sessions :
          LET S == sess[s]
              h == Len(S.messages)
          IN  S.pc = "call" =>
                /\ S.k \in 1..Len(S.toolCalls)
                /\ IsCallOf(S, h, S.toolCalls[S.k])
                /\ S.dispatched[Len(S.dispatched)].ID = S.toolCalls[S.k].ID
                /\ \A a \in 1..(S.k - 1) :
                     /\ IsCallOf(S, h - 2 * (S.k - a), S.toolCalls[a])
                     /\ IsResultOf(S, h - 2 * (S.k - a) + 1, S.toolCalls[a])
                /\ \A c \in (S.k + 1)..Len(S.toolCalls), j \in 1..h :
                     ~IsCallOf(S, j, S.toolCalls[c]))
  /\ [][\A s \in Sessions :
          LET S == sess[s]
              T == sess'[s]
              n == Len(S.toolCalls)
          IN  /\ S.pc = "llm" /\ T.pc = "call" =>
                   \E resp \in Responses(S.i) :
                     /\ resp.err.isNil
                     /\ T.toolCalls = CallsOfChoices(resp.Choices, Len(resp.Choices))
              /\ S.pc = "call" /\ T.pc = "call" /\ T # S =>
                   T.k > S.k /\ T.toolCalls = S.toolCalls
              /\ S.pc = "call" /\ T.pc \in {"call", "loop"} /\ T # S =>
                   IsResultOf(T, Len(S.messages) + 1, S.toolCalls[S.k])
              /\ S.pc = "call" /\ T.pc = "loop" =>
                   /\ Len(T.messages) = Len(S.messages) + 1 + 2 * (n - S.k)
                   /\ \A a \in 1..n :
                        /\ IsCallOf(T, Len(T.messages) - 2 * (n - a) - 1, S.toolCalls[a])
                        /\ IsResultOf(T, Len(T.messages) - 2 * (n - a), S.toolCalls[a])]_vars

\* The response had two choices with one tool call each: the call of the
\* second choice is with its server, after the call of the first choice
\* and its result.
C33_Witness ==
  /\ sess[1].pc = "call"
  /\ sess[1].k = 2
  /\ sess[1].toolCalls = <<TCx(0), TCy(0)>>
  /\ Len(sess[1].dispatched) = 2

\* The positions of the instruction to conclude in the session's history.
Concludes(S) ==
  {j \in 1..Len(S.messages) :
     S.messages[j] = [Role |-> "system", Part |-> TextPart(concludeText)]}

\* C34: the history holds the instruction to conclude once if the model
\* call of iteration maxCalls-1 has been issued and not at all otherwise;
\* it is appended in the step that issues that model call, as the last
\* message handed to it.
C34_ConcludeOnceAtLastCall ==
  /\ [](\A s \in Sessions :
          LET S == sess[s]
          IN  /\ Cardinality(Concludes(S)) =
                   IF S.maxCalls > 0 /\ S.llmCalls = S.maxCalls THEN 1 ELSE 0
              /\ Concludes(S) \subseteq {Len(S.messages)}
              /\ S.pc = "llm" =>
                   (Concludes(S) # {} <=> S.i = S.maxCalls - 1))
  /\ [][\A s \in Sessions :
          Concludes(sess'[s]) # Concludes(sess[s]) =>
            /\ sess[s].pc = "loop"
            /\ sess[s].i = sess[s].maxCalls - 1
            /\ sess'[s].pc = "llm"
            /\ sess'[s].i = sess[s].i
            /\ sess'[s].llmCalls = sess[s].llmCalls + 1
            /\ sess'[s].messages = Append(sess[s].messages,
                 [Role |-> "system", Part |-> TextPart(concludeText)])]_vars

\* The last permitted model call of a session of MaxCallsBound calls is
\* pending, after an iteration with a tool call; its history ends with the
\* instruction.
C34_Witness ==
  /\ sess[1].pc = "llm"
  /\ sess[1].maxCalls = MaxCallsBound
  /\ sess[1].i = MaxCallsBound - 1
  /\ PartsOf(sess[1].messages, "toolResponse") # {}
  /\ Concludes(sess[1]) = {Len(sess[1].messages)}

\* C35: once the context is cancelled no step hands a further request to
\* a server.
C35_NoDispatchAfterCancel ==
  [][\A s \in Sessions :
       ctxDone => sess'[s].dispatched = sess[s].dispatched]_vars

\* What holds of C35: once the context is cancelled, a session sends
\* requests only for tool calls of the iteration whose model call was
\* issued or answered before, and issues no model call.
CancelEndsAtLoopTop ==
  [][\A s \in Sessions :
       ctxDone =>
         /\ sess'[s].llmCalls = sess[s].llmCalls
         /\ sess'[s].dispatched # sess[s].dispatched =>
              /\ sess[s].pc \in {"llm", "call"}
              /\ sess'[s].i = sess[s].i]_vars

\* C36: a request is sent to a server only in an iteration before the
\* last one (i <= maxCalls - 2), so in at most maxCalls - 1 iterations and
\* in none when maxCalls = 1; with maxCalls <= 0 no model call is ever
\* made and the first step of the loop ends the session, its history
\* being the two messages of INIT.
C36_ToolIterationsBelowBudget ==
  /\ [](\A s \in Sessions :
          LET S == sess[s]
          IN  /\ S.maxCalls <= 1 => S.dispatched = <<>>
              /\ S.maxCalls <= 0 =>
                   /\ S.llmCalls = 0
                   /\ S.pc \notin {"llm", "call"}
                   /\ Len(S.messages) <= 2
              /\ S.pc = "call" => S.i <= S.maxCalls - 2)
  /\ [][\A s \in Sessions :
          LET S == sess[s]
              T == sess'[s]
          IN  /\ T.dispatched # S.dispatched =>
                   /\ S.i <= S.maxCalls - 2
                   /\ T.i = S.i
              /\ S.pc = "loop" /\ S.maxCalls <= 0 /\ T # S =>
                   /\ T.pc = "done"
                   /\ T.outcome = "BUDGET_EXHAUSTED"
                   /\ T.messages = S.messages]_vars

\* With maxCalls = 1 the only response proposed a tool call, and the
\* session ended without sending any request.
C36_Witness ==
  /\ sess[1].maxCalls = 1
  /\ sess[1].pc = "done"
  /\ sess[1].llmCalls = 1
  /\ sess[1].toolCalls # <<>>
  /\ sess[1].dispatched = <<>>
  /\ PartsOf(sess[1].messages, "toolCall") = {}

\* A session with a negative maxCalls ended at its first loop test.
ExitNegativeBudget ==
  /\ sess[1].maxCalls < 0
  /\ sess[1].outcome = "BUDGET_EXHAUSTED"
  /\ Len(sess[1].messages) = 2

\* The connections registry r owns: those its Close will close.
Owned(r) ==
  IF regs[r] = NoClients THEN {}
  ELSE {CloseTargets(heap, regs[r])[k] : k \in 1..Len(CloseTargets(heap, regs[r]))}

\* C37: once RegisterClient has returned, the connection it was given, if
\* started and not closed, is in the registering registry's list of owned
\* connections.
C37_StartedOwnedOrClosed ==
  ret.op = "RegisterClient" =>
    LET x == Client(ret.r, ret.name)
    IN  conns[x].status = "open" => x \in Owned(ret.r)

\* What holds of C37: the same when the handshake and the listing
\* succeeded.
RegisteredOwnedOrClosed ==
  ret.op = "RegisterClient" /\ ret.outcome \notin {"initErr", "listErr"} =>
    LET x == Client(ret.r, ret.name)
    IN  /\ conns[x].status = "open" => x \in Owned(ret.r)
        /\ conns[x].status = "open" <=> (ret.outcome = "ok" /\ ServerTools[ret.name] # <<>>)

\* The batch RegisterServersConfig is given for registry r.
BatchOf(r) == GetMCPServers(r = Base)

\* Server name of r's batch was processed: registered with its tools, or
\* closed for listing none.
Processed(cs, h, c, r, name) ==
  \/ MCPServers[name].Disabled
  \/ /\ cs[Client(r, name)].status = "open"
     /\ \E k \in 1..Len(CloseTargets(h, c)) : CloseTargets(h, c)[k] = Client(r, name)
  \/ cs[Client(r, name)].status = "closed"

\* The step in which RegisterServersConfig returns nil for registry r.
ReturnsNil(r) ==
  /\ regLeft[r] # {}
  /\ regLeft'[r] = {}
  /\ IF r = Base THEN mainPc = "register" /\ mainPc' = "setup"
                 ELSE sess[r].pc = "register" /\ sess'[r].pc = "new"

\* C38: when RegisterServersConfig returns nil, every enabled server of
\* its batch has been processed.
C38_NilMeansWholeBatch ==
  [][\A r \in Registries :
       ReturnsNil(r) =>
         \A name \in BatchOf(r) : Processed(conns', heap', regs'[r], r, name)]_vars

\* What holds of C38: the same unless the context is cancelled.
NilMeansWholeBatchUnlessCancelled ==
  [][\A r \in Registries :
       ReturnsNil(r) /\ ~ctxDone =>
         \A name \in BatchOf(r) : Processed(conns', heap', regs'[r], r, name)]_vars

\* C39: in every registry, made by New or by Clone and after any
\* registrations, the names of the tool list are pairwise different and
\* are exactly the keys of the name-to-connection map.
C39_ListAndMapAgree ==
  \A r \in DOMAIN regs :
    regs[r] # NoClients =>
      LET tools == GetTools(heap, regs[r])
          keys  == DOMAIN heap[regs[r].toolsClients]
      IN  /\ \A q \in keys : Cardinality({k \in 1..Len(tools) : tools[k].Name = q}) = 1
          /\ \A k \in 1..Len(tools) : tools[k].Name \in keys

\* A clone that inherited the two tools of server a and registered server
\* a_b, one of whose two names was taken: three names in list and map.
C39_Witness ==
  /\ regs[1] # NoClients
  /\ CloseTargets(heap, regs[1]) = <<Client(1, SrvAB)>>
  /\ Len(GetTools(heap, regs[1])) = 3
  /\ Cardinality(DOMAIN heap[regs[1].toolsClients]) = 3
  /\ heap[regs[1].toolsClients][SprintfName(SrvAB, <<"c">>)].Client = Client(0, SrvA)

ErrorOnlyWithoutSession ==
  (mode = "batch" /\ sess[1].pc = "done") =>
    (sess[1].runErr.isNil <=> sess[1].outcome \in Terminal)

\* A batch session that ended FAILED after a model call, with nil returned.
FailedReturnsNil ==
  /\ mode = "batch"
  /\ mainPc = "returned"
  /\ ExitFailed
  /\ sess[1].runErr.isNil


====
